---- MODULE Spec2Model ----
(***************************************************************************)
(* A model of the DNS message codec and forwarding relay.                  *)
(*                                                                         *)
(* Bytes are integers 0..255, byte strings are sequences of bytes, and a   *)
(* *DNSHeader is an address into `heap`, so that copy-versus-alias is      *)
(* something the model can tell apart.                                     *)
(***************************************************************************)
EXTENDS Integers, Sequences, FiniteSets, TLC

VARIABLES
    heap,    \* the DNSHeader objects allocated so far; a *DNSHeader is an index
    hpc,     \* header exercises: which call was made last
    hdr,     \* header exercises: the header the calls are made on (an address)
    hbytes,  \* header exercises: the bytes DNSHeader.Encode returned
    hdec,    \* header exercises: [ptr, err] of DNSHeader.Decode over hbytes
    vres,    \* header exercises: [field, value, err] of the validator called
    mods,    \* header exercises: the mutators handed to ModifyDNSHeader
    mret,    \* header exercises: [ptr, err] ModifyDNSHeader returned
    hopts,   \* header exercises: the options NewDNSHeader was called with
    cpc,     \* codec exercises: which call was made last
    cin,     \* codec exercises: what the message or datagram is made from
    cmsg,    \* codec exercises: the message built from cin
    wire,    \* codec exercises: the datagram, encoded or received
    dmsg,    \* codec exercises: the message DNSMessage.Decode filled in
    cerr,    \* codec exercises: the error of the last call
    wire2,   \* codec exercises: the bytes of encoding dmsg again
    fpc,     \* relay: where main is in its event loop
    query,   \* relay: what the client's datagram was made from
    clientMessage,        \* relay: main's clientMessage
    requestMessages,      \* relay: what SplitDNSMessage returned
    downstreamResponses,  \* relay: the replies DNSServerHandler decoded so far
    requests,  \* relay: the datagrams written to the resolver, in order
    replies,   \* relay: what each datagram read from the resolver was made from
    response,  \* relay: the datagram written to the client
    ferr,      \* relay: the error that ended the event loop
    upc,     \* utils.go exercises: which function was called
    uin,     \* utils.go exercises: what its arguments are made from
    uout     \* utils.go exercises: what it returned

hvars == <<hpc, hdr, hbytes, hdec, vres, mods, mret, hopts>>
cvars == <<cpc, cin, cmsg, wire, dmsg, cerr, wire2>>
fvars == <<fpc, query, clientMessage, requestMessages, downstreamResponses,
           requests, replies, response, ferr>>
uvars == <<upc, uin, uout>>
vars == <<heap, hvars, cvars, fvars, uvars>>

----------------------------------------------------------------------------
(* constants.go *)

DNSHeaderSize == 12
QRMax == 1
OpCodeMax == 15
AAMax == 1
TCMax == 1
RDMax == 1
RAMax == 1
ZMax == 7
RCodeMax == 15
QRShift == 15
OpCodeShift == 11
AAShift == 10
TCShift == 9
RDShift == 8
RAShift == 7
ZShift == 4
RCodeShift == 0

----------------------------------------------------------------------------
(* uint16 arithmetic *)

Bit(x, i) == (x \div (2 ^ i)) % 2

RECURSIVE And16From(_, _, _)
And16From(a, b, i) ==
    IF i > 15 THEN 0
    ELSE Bit(a, i) * Bit(b, i) * (2 ^ i) + And16From(a, b, i + 1)

RECURSIVE Or16From(_, _, _)
Or16From(a, b, i) ==
    IF i > 15 THEN 0
    ELSE (IF Bit(a, i) + Bit(b, i) > 0 THEN 2 ^ i ELSE 0) + Or16From(a, b, i + 1)

\* a & b, a | b, a &^ b and a << s on uint16
And16(a, b) == And16From(a, b, 0)
Or16(a, b) == Or16From(a, b, 0)
AndNot16(a, b) == And16(a, 65535 - (b % 65536))
Shl16(a, s) == (a * (2 ^ s)) % 65536

QRMask == Shl16(1, QRShift)
OpCodeMask == Shl16(15, OpCodeShift)
AAMask == Shl16(1, AAShift)
TCMask == Shl16(1, TCShift)
RDMask == Shl16(1, RDShift)
RAMask == Shl16(1, RAShift)
ZMask == Shl16(7, ZShift)
RCodeMask == Shl16(15, RCodeShift)

----------------------------------------------------------------------------
(* errors *)

Nil == [kind |-> "nil"]
OutOfRange(field, v) == [kind |-> "OutOfRange", field |-> field, value |-> v]
EOF == [kind |-> "EOF"]
UnexpectedEOF == [kind |-> "UnexpectedEOF"]

----------------------------------------------------------------------------
(* types.go: DNSHeader *)

DNSHeader(id, flags, qd, an, ns, ar) ==
    [ID |-> id, Flags |-> flags, QDCount |-> qd, ANCount |-> an,
     NSCount |-> ns, ARCount |-> ar]

\* &DNSHeader{}
ZeroHeader == DNSHeader(0, 0, 0, 0, 0, 0)

----------------------------------------------------------------------------
(* validation.go *)

validateQR(qr) == IF qr > QRMax THEN OutOfRange("QR", qr) ELSE Nil

validateOpCodeOffByOne(opCode) ==
    IF opCode >= OpCodeMax THEN OutOfRange("OpCode", opCode) ELSE Nil

validateOpCode(opCode) ==
    IF opCode > OpCodeMax THEN OutOfRange("OpCode", opCode) ELSE Nil

validateAA(aa) == IF aa > AAMax THEN OutOfRange("AA", aa) ELSE Nil

validateTC(tc) == IF tc > TCMax THEN OutOfRange("TC", tc) ELSE Nil

validateRD(rd) == IF rd > RDMax THEN OutOfRange("RD", rd) ELSE Nil

validateRA(ra) == IF ra > RAMax THEN OutOfRange("RA", ra) ELSE Nil

validateZ(z) == IF z > ZMax THEN OutOfRange("Z", z) ELSE Nil

validateRCode(rCode) ==
    IF rCode > RCodeMax THEN OutOfRange("RCode", rCode) ELSE Nil

FlagFields == {"QR", "OpCode", "AA", "TC", "RD", "RA", "Z", "RCode"}

\* the validator of one flag sub-field, called
Validate(field, v) ==
    CASE field = "QR" -> validateQR(v)
      [] field = "OpCode" -> validateOpCode(v)
      [] field = "AA" -> validateAA(v)
      [] field = "TC" -> validateTC(v)
      [] field = "RD" -> validateRD(v)
      [] field = "RA" -> validateRA(v)
      [] field = "Z" -> validateZ(v)
      [] field = "RCode" -> validateRCode(v)

----------------------------------------------------------------------------
(* dns_message.go: the field mutators.  A mutator is [kind, val]; applying  *)
(* it to a header value gives [hdr, err], hdr being the header afterwards.  *)

\* a setter that does not clear the field first
SetFlagsOrOnly(h, mask, v, shift) ==
    [h EXCEPT !.Flags = Or16(h.Flags, Shl16(v, shift))]

SetFlags(h, mask, v, shift) ==
    [h EXCEPT !.Flags = Or16(AndNot16(h.Flags, mask), Shl16(v, shift))]

Checked(h, err, mask, v, shift) ==
    IF err # Nil THEN [hdr |-> h, err |-> err]
    ELSE [hdr |-> SetFlags(h, mask, v, shift), err |-> Nil]

ModifyQR(h, qr) == Checked(h, validateQR(qr), QRMask, qr, QRShift)
ModifyOpCode(h, opCode) ==
    Checked(h, validateOpCode(opCode), OpCodeMask, opCode, OpCodeShift)
ModifyAA(h, aa) == Checked(h, validateAA(aa), AAMask, aa, AAShift)
ModifyTC(h, tc) == Checked(h, validateTC(tc), TCMask, tc, TCShift)
ModifyRD(h, rd) == Checked(h, validateRD(rd), RDMask, rd, RDShift)
ModifyRA(h, ra) == Checked(h, validateRA(ra), RAMask, ra, RAShift)
ModifyZ(h, z) == Checked(h, validateZ(z), ZMask, z, ZShift)
ModifyRCode(h, rCode) ==
    Checked(h, validateRCode(rCode), RCodeMask, rCode, RCodeShift)
ModifyQDCount(h, n) == [hdr |-> [h EXCEPT !.QDCount = n], err |-> Nil]
ModifyANCount(h, n) == [hdr |-> [h EXCEPT !.ANCount = n], err |-> Nil]
ModifyNSCount(h, n) == [hdr |-> [h EXCEPT !.NSCount = n], err |-> Nil]
ModifyARCount(h, n) == [hdr |-> [h EXCEPT !.ARCount = n], err |-> Nil]

Mod(kind, val) == [kind |-> kind, val |-> val]

\* mod(&newHeader)
ApplyMod(h, m) ==
    CASE m.kind = "QR" -> ModifyQR(h, m.val)
      [] m.kind = "OpCode" -> ModifyOpCode(h, m.val)
      [] m.kind = "AA" -> ModifyAA(h, m.val)
      [] m.kind = "TC" -> ModifyTC(h, m.val)
      [] m.kind = "RD" -> ModifyRD(h, m.val)
      [] m.kind = "RA" -> ModifyRA(h, m.val)
      [] m.kind = "Z" -> ModifyZ(h, m.val)
      [] m.kind = "RCode" -> ModifyRCode(h, m.val)
      [] m.kind = "QDCount" -> ModifyQDCount(h, m.val)
      [] m.kind = "ANCount" -> ModifyANCount(h, m.val)
      [] m.kind = "NSCount" -> ModifyNSCount(h, m.val)
      [] m.kind = "ARCount" -> ModifyARCount(h, m.val)

\* the loop of ModifyDNSHeader over newHeader, from mutator i on:
\* [hdr, err], stopping at the first mutator that fails
RECURSIVE ApplyMods(_, _, _)
ApplyMods(h, ms, i) ==
    IF i > Len(ms) THEN [hdr |-> h, err |-> Nil]
    ELSE LET r == ApplyMod(h, ms[i])
         IN  IF r.err # Nil THEN r ELSE ApplyMods(r.hdr, ms, i + 1)

\* a bug ModifyDNSHeader could have: the mutated copy is stored back into the
\* receiver when every mutator succeeded, and the receiver is returned
ModifyDNSHeaderStoredBack(hp, p, ms) ==
    LET r == ApplyMods(hp[p], ms, 1)
    IN  IF r.err # Nil THEN [heap |-> Append(hp, r.hdr), ptr |-> p, err |-> r.err]
        ELSE [heap |-> [hp EXCEPT ![p] = r.hdr], ptr |-> p, err |-> Nil]

\* a bug ModifyDNSHeader could have: newHeader aliases the receiver
\* (newHeader := header), so the mutators write through to the original
ModifyDNSHeaderInPlace(hp, p, ms) ==
    LET r == ApplyMods(hp[p], ms, 1)
    IN  [heap |-> [hp EXCEPT ![p] = r.hdr], ptr |-> p, err |-> r.err]

\* header.ModifyDNSHeader(ms...) on the header at address p of heap hp:
\* newHeader is a fresh copy; [heap, ptr, err] with ptr the returned pointer
ModifyDNSHeader(hp, p, ms) ==
    LET new == Len(hp) + 1
        r == ApplyMods(hp[p], ms, 1)
    IN  [heap |-> Append(hp, r.hdr),
         ptr |-> IF r.err # Nil THEN p ELSE new,
         err |-> r.err]

----------------------------------------------------------------------------
(* dns_message.go: DNSHeader.Encode and DNSHeader.Decode *)

\* binary.BigEndian over a uint16
BE16(v) == <<(v \div 256) % 256, v % 256>>
LE16(v) == <<v % 256, (v \div 256) % 256>>
ReadBE16(b, pos) == b[pos + 1] * 256 + b[pos + 2]

\* a bug DNSHeader.Encode could have: the wrong byte order
EncodeHeaderLittleEndian(h) ==
    LE16(h.ID) \o LE16(h.Flags) \o LE16(h.QDCount) \o LE16(h.ANCount)
        \o LE16(h.NSCount) \o LE16(h.ARCount)

\* binary.Write(buf, binary.BigEndian, header): the struct's fields in order
EncodeHeader(h) ==
    BE16(h.ID) \o BE16(h.Flags) \o BE16(h.QDCount) \o BE16(h.ANCount)
        \o BE16(h.NSCount) \o BE16(h.ARCount)

\* binary.Read(buf, binary.BigEndian, header) with the reader at offset pos of
\* b: [hdr, err, pos]; io.ReadFull gives EOF when nothing is left and
\* ErrUnexpectedEOF when fewer than 12 bytes are, and the header is not written
DecodeHeader(b, pos) ==
    IF Len(b) - pos <= 0 THEN [hdr |-> ZeroHeader, err |-> EOF, pos |-> pos]
    ELSE IF Len(b) - pos < DNSHeaderSize
         THEN [hdr |-> ZeroHeader, err |-> UnexpectedEOF, pos |-> Len(b)]
    ELSE [hdr |-> DNSHeader(ReadBE16(b, pos), ReadBE16(b, pos + 2),
                            ReadBE16(b, pos + 4), ReadBE16(b, pos + 6),
                            ReadBE16(b, pos + 8), ReadBE16(b, pos + 10)),
          err |-> Nil, pos |-> pos + DNSHeaderSize]

\* DNSHeaderOptions
DNSHeaderOptions(id, qr, opCode, aa, tc, rd, ra, z, rCode, qd, an, ns, ar) ==
    [ID |-> id, QR |-> qr, OpCode |-> opCode, AA |-> aa, TC |-> tc, RD |-> rd,
     RA |-> ra, Z |-> z, RCode |-> rCode, QDCount |-> qd, ANCount |-> an,
     NSCount |-> ns, ARCount |-> ar]

\* validateHeaderOptions(opts): the validators of its list, in order; the
\* list holds validateQR(opts.QR) and nothing else
validateHeaderOptions(opts) == validateQR(opts.QR)

\* opts.QR<<QRShift | opts.OpCode<<OpCodeShift | ... | opts.RCode<<RCodeShift
\* in uint16
PackFlags(opts) ==
    Or16(Or16(Or16(Shl16(opts.QR, QRShift), Shl16(opts.OpCode, OpCodeShift)),
              Or16(Shl16(opts.AA, AAShift), Shl16(opts.TC, TCShift))),
         Or16(Or16(Shl16(opts.RD, RDShift), Shl16(opts.RA, RAShift)),
              Or16(Shl16(opts.Z, ZShift), Shl16(opts.RCode, RCodeShift))))

\* NewDNSHeader(opts): [hdr, err], hdr being the header allocated on success
NewDNSHeader(opts) ==
    IF validateHeaderOptions(opts) # Nil
    THEN [hdr |-> ZeroHeader, err |-> validateHeaderOptions(opts)]
    ELSE [hdr |-> DNSHeader(opts.ID, PackFlags(opts), opts.QDCount, opts.ANCount,
                            opts.NSCount, opts.ARCount),
          err |-> Nil]

----------------------------------------------------------------------------
(* utils.go: names.  A string is the sequence of its bytes. *)

Dot == 46

DNSLabel(length, content) == [Length |-> length, Content |-> content]

\* the label BytesToLabels gives for the terminating zero byte
NullLabel == DNSLabel(0, <<>>)

\* strings.Split(s, "."): the segments between the dots, at least one
\* from index i of s on; j is the index of the next dot, or Len(s) + 1
RECURSIVE SplitDots(_, _)

SplitAtDot(s, i, j) ==
    IF j > Len(s) THEN <<SubSeq(s, i, Len(s))>>
    ELSE <<SubSeq(s, i, j - 1)>> \o SplitDots(s, j + 1)

SplitDots(s, i) ==
    SplitAtDot(s, i, CHOOSE j \in i .. Len(s) + 1 :
                        /\ j = Len(s) + 1 \/ s[j] = Dot
                        /\ \A k \in i .. j - 1 : s[k] # Dot)

\* the loop of the first StringToLabels, which checks no length: the
\* conversion uint8(len(label)) keeps the low 8 bits
RECURSIVE LabelsOfSegmentsUnchecked(_, _)
LabelsOfSegmentsUnchecked(segs, i) ==
    IF i > Len(segs) THEN [labels |-> <<>>, err |-> Nil]
    ELSE [labels |-> <<DNSLabel(Len(segs[i]) % 256, segs[i])>>
                        \o LabelsOfSegmentsUnchecked(segs, i + 1).labels,
          err |-> Nil]

\* the loop of StringToLabels over the segments: [labels, err]
RECURSIVE LabelsOfSegments(_, _)
LabelsOfSegments(segs, i) ==
    IF i > Len(segs) THEN [labels |-> <<>>, err |-> Nil]
    ELSE IF Len(segs[i]) > 255
         THEN [labels |-> <<>>, err |-> [kind |-> "LabelTooLong", label |-> segs[i]]]
    ELSE LET rest == LabelsOfSegments(segs, i + 1)
         IN  IF rest.err # Nil THEN rest
             ELSE [labels |-> <<DNSLabel(Len(segs[i]) % 256, segs[i])>> \o rest.labels,
                   err |-> Nil]

StringToLabels(name) == LabelsOfSegments(SplitDots(name, 1), 1)

\* strings.Join of the labels' contents with "."
RECURSIVE LabelsToString(_)
LabelsToString(labels) ==
    IF Len(labels) = 0 THEN <<>>
    ELSE IF Len(labels) = 1 THEN labels[1].Content
    ELSE labels[1].Content \o <<Dot>> \o LabelsToString(Tail(labels))

\* make([]byte, n)
Zeros(n) == [i \in 1 .. n |-> 0]

\* BytesToLabels from offset pos of data: [labels, err].  buf.Read(content)
\* copies what is left when fewer than length bytes are, and the rest of
\* content stays zero; it fails only when nothing is left
RECURSIVE BytesToLabelsFrom(_, _)
BytesToLabelsFrom(data, pos) ==
    IF Len(data) - pos <= 0 THEN [labels |-> <<>>, err |-> Nil]
    ELSE LET length == data[pos + 1]
             left == Len(data) - (pos + 1)
             n == IF length < left THEN length ELSE left
             content == SubSeq(data, pos + 2, pos + 1 + n) \o Zeros(length - n)
         IN  IF length > 0 /\ left = 0 THEN [labels |-> <<>>, err |-> EOF]
             ELSE LET rest == BytesToLabelsFrom(data, pos + 1 + n)
                  IN  IF rest.err # Nil THEN rest
                      ELSE [labels |-> <<DNSLabel(length, content)>> \o rest.labels,
                            err |-> Nil]

BytesToLabels(data) == BytesToLabelsFrom(data, 0)

\* what unbounded recursion ends in: the Go runtime kills the process
\* ("goroutine stack exceeds 1000000000-byte limit"); no error value is returned
StackOverflow == [kind |-> "StackOverflow"]

\* the offset of the first byte at or after offset pos of b that the loop of
\* ReadQName does not copy as it is (a zero byte, or the first byte of a
\* pointer); Len(b) when every byte left is copied
StopOffset(b, pos) ==
    LET S == {i \in pos .. (Len(b) - 1) : b[i + 1] = 0 \/ b[i + 1] >= 192}
    IN  IF S = {} THEN Len(b) ELSE CHOOSE i \in S : \A k \in S : i <= k

\* ReadQName with the reader at offset pos of b: [data, err, pos], pos being
\* the reader's offset afterwards.  `seen` holds the offsets the pointers
\* followed so far led to: the scan from an offset is determined by b alone, so
\* following a pointer to an offset of `seen` recurses without end.
RECURSIVE ReadQNameFrom(_, _, _)

\* a ReadQName that does not seek back: the reader stays where the pointed-to
\* name ended
AppendPointedNoSeek(result, currentPos, r) ==
    IF r.err # Nil THEN [data |-> <<>>, err |-> r.err, pos |-> r.pos]
    ELSE [data |-> result \o r.data, err |-> Nil, pos |-> r.pos]

\* result = append(result, pointedData...) once the recursive call returned r,
\* and the seek back to currentPos
AppendPointed(result, currentPos, r) ==
    IF r.err # Nil THEN [data |-> <<>>, err |-> r.err, pos |-> r.pos]
    ELSE [data |-> result \o r.data, err |-> Nil, pos |-> currentPos]

\* the pointer branch: seek to offset, read the name there, seek back
FollowPointer(b, seen, result, offset, currentPos) ==
    IF offset \in seen THEN [data |-> <<>>, err |-> StackOverflow, pos |-> offset]
    ELSE AppendPointed(result, currentPos,
                       ReadQNameFrom(b, offset, seen \cup {offset}))

\* the loop of ReadQName once it copied the bytes from pos up to offset stop
ReadQNameStop(b, pos, stop, seen) ==
    IF stop >= Len(b) THEN [data |-> <<>>, err |-> EOF, pos |-> Len(b)]
    ELSE IF b[stop + 1] = 0
    THEN [data |-> Append(SubSeq(b, pos + 1, stop), 0), err |-> Nil,
          pos |-> stop + 1]
    ELSE IF stop + 1 >= Len(b)
    THEN [data |-> <<>>, err |-> EOF, pos |-> stop + 1]
    ELSE FollowPointer(b, seen, SubSeq(b, pos + 1, stop),
                       (b[stop + 1] % 64) * 256 + b[stop + 2], stop + 2)

ReadQNameFrom(b, pos, seen) == ReadQNameStop(b, pos, StopOffset(b, pos), seen)

\* a bug ReadQName could have: the pointer's offset counted from the end of
\* the header instead of from the start of the message
ReadQNameAfterHeader(b, pos) ==
    LET r == ReadQNameFrom(SubSeq(b, DNSHeaderSize + 1, Len(b)),
                           pos - DNSHeaderSize, {})
    IN  [r EXCEPT !.pos = r.pos + DNSHeaderSize]

ReadQName(b, pos) == ReadQNameFrom(b, pos, {})

----------------------------------------------------------------------------
(* dns_message.go: questions, resource records, messages *)

DNSQuestion(name, type, class) == [Name |-> name, Type |-> type, Class |-> class]

ResourceRecord(name, type, class, ttl, length, data) ==
    [Name |-> name, Type |-> type, Class |-> class, TTL |-> ttl,
     Length |-> length, Data |-> data]

DNSAnswer(rrs) == [ResourceRecords |-> rrs]

\* DNSMessage{Header, Questions, Answers}; Header is an address, 0 for nil
DNSMessage(header, questions, answers) ==
    [Header |-> header, Questions |-> questions, Answers |-> answers]

\* &DNSMessage{}
ZeroMessage == DNSMessage(0, <<>>, <<>>)

BE32(v) == BE16((v \div 65536) % 65536) \o BE16(v % 65536)

\* binary.Read of a uint16 with the reader at offset pos of b: [val, err, pos]
ReadUint16(b, pos) ==
    IF Len(b) - pos <= 0 THEN [val |-> 0, err |-> EOF, pos |-> pos]
    ELSE IF Len(b) - pos < 2 THEN [val |-> 0, err |-> UnexpectedEOF, pos |-> Len(b)]
    ELSE [val |-> ReadBE16(b, pos), err |-> Nil, pos |-> pos + 2]

\* NewDNSQuestion(opts): [question, err]
NewDNSQuestion(name, type, class) ==
    LET l == StringToLabels(name)
    IN  [question |-> DNSQuestion(l.labels, type, class), err |-> l.err]

\* the value of a decimal field of 1 to 3 digits, -1 when it is not one
\* (net.ParseIP takes no empty field, no sign and no leading zero)
DecimalOctet(f) ==
    IF Len(f) = 0 \/ Len(f) > 3 \/ (\E i \in 1 .. Len(f) : f[i] < 48 \/ f[i] > 57)
        \/ (Len(f) > 1 /\ f[1] = 48)
    THEN -1
    ELSE LET d(i) == f[i] - 48
             v == IF Len(f) = 1 THEN d(1)
                  ELSE IF Len(f) = 2 THEN 10 * d(1) + d(2)
                  ELSE 100 * d(1) + 10 * d(2) + d(3)
         IN  IF v > 255 THEN -1 ELSE v

\* net.ParseIP(s).To4() for a dotted-decimal s: [data, err]; the strings of
\* this model hold no IPv6 address
ParseIPv4(s) ==
    LET parts == SplitDots(s, 1)
    IN  IF Len(parts) # 4 \/ (\E i \in 1 .. 4 : DecimalOctet(parts[i]) < 0)
        THEN [data |-> <<>>, err |-> [kind |-> "InvalidIP", address |-> s]]
        ELSE [data |-> [i \in 1 .. 4 |-> DecimalOctet(parts[i])], err |-> Nil]

\* the value of the decimal digits of f from index i on, acc being the
\* value of those before
RECURSIVE DigitsValue(_, _, _)
DigitsValue(f, i, acc) ==
    IF i > Len(f) THEN acc ELSE DigitsValue(f, i + 1, 10 * acc + (f[i] - 48))

\* strconv.Atoi(f) for an f short enough not to leave the range of int:
\* [val, err]; an optional sign, then one decimal digit or more
Atoi(f) ==
    LET signed == Len(f) > 0 /\ f[1] \in {43, 45}
        digits == IF signed THEN Tail(f) ELSE f
    IN  IF Len(digits) = 0 \/ (\E i \in 1 .. Len(digits) : digits[i] \notin 48 .. 57)
        THEN [val |-> 0, err |-> [kind |-> "NumError"]]
        ELSE [val |-> (IF signed /\ f[1] = 45 THEN -1 ELSE 1) * DigitsValue(digits, 1, 0),
              err |-> Nil]

\* a run-time panic: the process ends, nothing is returned
IndexOutOfRange == [kind |-> "IndexOutOfRange"]

\* the loop of IPToBytes from part i on, bytes being the slice so far, a
\* sequence of 4 bytes whatever dataLength is: [data, err]
RECURSIVE IPFill(_, _, _, _)

IPStore(IPAddress, parts, i, bytes, num) ==
    IF num.err # Nil \/ num.val < 0 \/ num.val > 255
    THEN [data |-> <<>>, err |-> [kind |-> "InvalidIP", address |-> IPAddress]]
    ELSE IF i > Len(bytes) THEN [data |-> <<>>, err |-> IndexOutOfRange]
    ELSE IPFill(IPAddress, parts, i + 1, [bytes EXCEPT ![i] = num.val])

IPFill(IPAddress, parts, i, bytes) ==
    IF i > Len(parts) THEN [data |-> bytes, err |-> Nil]
    ELSE IPStore(IPAddress, parts, i, bytes, Atoi(parts[i]))

IPParts(IPAddress, dataLength, parts) ==
    IF Len(parts) # dataLength
    THEN [data |-> <<>>, err |-> [kind |-> "IPLength", length |-> dataLength]]
    ELSE IPFill(IPAddress, parts, 1, Zeros(4))

\* IPToBytes(IPAddress, dataLength): [data, err]
IPToBytes(IPAddress, dataLength) ==
    IPParts(IPAddress, dataLength, SplitDots(IPAddress, 1))

\* ResourceRecordOptions
ResourceRecordOptions(name, type, class, ttl, length, data) ==
    [Name |-> name, Type |-> type, Class |-> class, TTL |-> ttl,
     Length |-> length, Data |-> data]

\* NewDNSAnswer(opts): [answer, err], the records in the order of opts
RECURSIVE NewRecords(_, _)
NewRecords(opts, i) ==
    IF i > Len(opts) THEN [rrs |-> <<>>, err |-> Nil]
    ELSE LET o == opts[i]
             l == StringToLabels(o.Name)
             d == ParseIPv4(o.Data)
         IN  IF l.err # Nil THEN [rrs |-> <<>>, err |-> l.err]
             ELSE IF d.err # Nil THEN [rrs |-> <<>>, err |-> d.err]
             ELSE LET rest == NewRecords(opts, i + 1)
                  IN  IF rest.err # Nil THEN rest
                      ELSE [rrs |-> <<ResourceRecord(l.labels, o.Type, o.Class, o.TTL,
                                                     o.Length, d.data)>> \o rest.rrs,
                            err |-> Nil]

NewDNSAnswer(opts) ==
    LET r == NewRecords(opts, 1)
    IN  [answer |-> DNSAnswer(r.rrs), err |-> r.err]

\* the label loop of DNSQuestion.Encode: the length byte, then the content,
\* stopping after a label of length 0; nothing is written after the last label
RECURSIVE EncodeQuestionName(_, _)
EncodeQuestionName(labels, i) ==
    IF i > Len(labels) THEN <<>>
    ELSE IF labels[i].Length = 0 THEN <<0>>
    ELSE <<labels[i].Length>> \o labels[i].Content \o EncodeQuestionName(labels, i + 1)

EncodeQuestion(q) == EncodeQuestionName(q.Name, 1) \o BE16(q.Type) \o BE16(q.Class)

\* the label loop of DNSAnswer.Encode: every label, its length byte then its
\* content
RECURSIVE EncodeRecordName(_, _)
EncodeRecordName(labels, i) ==
    IF i > Len(labels) THEN <<>>
    ELSE <<labels[i].Length>> \o labels[i].Content \o EncodeRecordName(labels, i + 1)

EncodeRecord(rr) ==
    EncodeRecordName(rr.Name, 1) \o BE16(rr.Type) \o BE16(rr.Class) \o BE32(rr.TTL)
        \o BE16(rr.Length) \o rr.Data

RECURSIVE EncodeRecords(_, _)
EncodeRecords(rrs, i) ==
    IF i > Len(rrs) THEN <<>> ELSE EncodeRecord(rrs[i]) \o EncodeRecords(rrs, i + 1)

EncodeAnswer(a) == EncodeRecords(a.ResourceRecords, 1)

RECURSIVE EncodeQuestions(_, _)
EncodeQuestions(qs, i) ==
    IF i > Len(qs) THEN <<>> ELSE EncodeQuestion(qs[i]) \o EncodeQuestions(qs, i + 1)

RECURSIVE EncodeAnswers(_, _)
EncodeAnswers(as, i) ==
    IF i > Len(as) THEN <<>> ELSE EncodeAnswer(as[i]) \o EncodeAnswers(as, i + 1)

\* message.Encode() with the headers in hp
EncodeMessage(hp, m) ==
    EncodeHeader(hp[m.Header]) \o EncodeQuestions(m.Questions, 1)
        \o EncodeAnswers(m.Answers, 1)

\* question.Decode(buf) with the reader at offset pos of b: [question, err, pos]
\* the steps of DNSQuestion.Decode, each handed what the steps before it read:
\* the name bytes n, the labels l, the type t, the class c
DecodeQuestionFailed(err, pos) ==
    [question |-> DNSQuestion(<<>>, 0, 0), err |-> err, pos |-> pos]

DecodeQuestionClass(l, t, c) ==
    IF c.err # Nil THEN DecodeQuestionFailed(c.err, c.pos)
    ELSE [question |-> DNSQuestion(l.labels, t.val, c.val), err |-> Nil,
          pos |-> c.pos]

DecodeQuestionType(b, l, t) ==
    IF t.err # Nil THEN DecodeQuestionFailed(t.err, t.pos)
    ELSE DecodeQuestionClass(l, t, ReadUint16(b, t.pos))

DecodeQuestionLabels(b, n, l) ==
    IF l.err # Nil THEN DecodeQuestionFailed(l.err, n.pos)
    ELSE DecodeQuestionType(b, l, ReadUint16(b, n.pos))

DecodeQuestionName(b, n) ==
    IF n.err # Nil THEN DecodeQuestionFailed(n.err, n.pos)
    ELSE DecodeQuestionLabels(b, n, BytesToLabels(n.data))

DecodeQuestion(b, pos) == DecodeQuestionName(b, ReadQName(b, pos))

\* the question loop of DNSMessage.Decode: [questions, err, pos]
RECURSIVE DecodeQuestions(_, _, _)

\* a loop that stores the questions last first
AppendQuestionLast(q, rest) ==
    IF rest.err # Nil THEN rest
    ELSE [questions |-> rest.questions \o <<q.question>>, err |-> Nil,
          pos |-> rest.pos]

\* message.Questions = append(message.Questions, question), then the rest
AppendQuestion(q, rest) ==
    IF rest.err # Nil THEN rest
    ELSE [questions |-> <<q.question>> \o rest.questions, err |-> Nil,
          pos |-> rest.pos]

\* one iteration of the loop, its question q decoded, n questions being left
DecodeQuestionsStep(b, n, q) ==
    IF q.err # Nil THEN [questions |-> <<>>, err |-> q.err, pos |-> q.pos]
    ELSE AppendQuestion(q, DecodeQuestions(b, q.pos, n - 1))

DecodeQuestions(b, pos, n) ==
    IF n = 0 THEN [questions |-> <<>>, err |-> Nil, pos |-> pos]
    ELSE DecodeQuestionsStep(b, n, DecodeQuestion(b, pos))

\* a bug Decode could have: the received RCODE kept when OPCODE is 0
RCodeModKeep(h) == IF And16(h.Flags, OpCodeMask) = 0 THEN <<>> ELSE <<Mod("RCode", 4)>>

\* a Decode that sets RCODE 0 whatever the OPCODE
RCodeModZero(h) == <<Mod("RCode", 0)>>

\* the response-code policy of DNSMessage.Decode
RCodeMod(h) ==
    IF And16(h.Flags, OpCodeMask) = 0 THEN <<Mod("RCode", 0)>> ELSE <<Mod("RCode", 4)>>

\* a Decode that fills the answer list from the header's ANCOUNT, one
\* answer of no record per count, as a parser of the answer section would
DecodeMessageRCodeAnswers(m, qs, md) ==
    IF md.err # Nil THEN [heap |-> md.heap, msg |-> m, err |-> md.err]
    ELSE [heap |-> md.heap,
          msg |-> DNSMessage(md.ptr, qs.questions,
                             [i \in 1 .. md.heap[md.ptr].ANCount |-> DNSAnswer(<<>>)]),
          err |-> Nil]

\* the steps of DNSMessage.Decode, last to first: the response code set on
\* the received header (md), after the questions were read (qs), after the
\* header was read (h) into a new DNSHeader (the last of hp1)
DecodeMessageRCode(m, qs, md) ==
    IF md.err # Nil THEN [heap |-> md.heap, msg |-> m, err |-> md.err]
    ELSE [heap |-> md.heap, msg |-> DNSMessage(md.ptr, qs.questions, <<>>),
          err |-> Nil]

\* a bug Decode could have: the header assigned to the message as soon as it
\* is read, so that it stays assigned when a question fails
DecodeMessageQuestionsEager(hp1, m, h, qs) ==
    IF qs.err # Nil
    THEN [heap |-> hp1, msg |-> [m EXCEPT !.Header = Len(hp1)], err |-> qs.err]
    ELSE DecodeMessageRCode(m, qs, ModifyDNSHeader(hp1, Len(hp1), RCodeMod(h.hdr)))

DecodeMessageQuestions(hp1, m, h, qs) ==
    IF qs.err # Nil THEN [heap |-> hp1, msg |-> m, err |-> qs.err]
    ELSE DecodeMessageRCode(m, qs, ModifyDNSHeader(hp1, Len(hp1), RCodeMod(h.hdr)))

DecodeMessageHeader(hp1, m, b, h) ==
    IF h.err # Nil THEN [heap |-> hp1, msg |-> m, err |-> h.err]
    ELSE DecodeMessageQuestions(hp1, m, h,
                                DecodeQuestions(b, h.pos, h.hdr.QDCount))

DecodeMessageReceived(hp, m, b, h) ==
    DecodeMessageHeader(Append(hp, h.hdr), m, b, h)

\* message.Decode(bytes.NewReader(b)) with the headers in hp: [heap, msg, err],
\* msg being what the message holds afterwards given it held m before
DecodeMessage(hp, m, b) == DecodeMessageReceived(hp, m, b, DecodeHeader(b, 0))

\* a mutator that leaves the type as it is
ModifyQTypeKeep(q, qType) == q

\* the mutators ModifyQType(qType) and ModifyClass(qClass) applied to q
ModifyQType(q, qType) == [q EXCEPT !.Type = qType]
ModifyClass(q, qClass) == [q EXCEPT !.Class = qClass]

\* question.ModifyDNSQuestion(ModifyQType(qType), ModifyClass(qClass)): the
\* modified copy; neither mutator returns an error
ModifyDNSQuestion(q, qType, qClass) == ModifyClass(ModifyQType(q, qType), qClass)

\* a split that returns the messages last question first
SplitPrependReversed(newMessage, rest) ==
    [heap |-> rest.heap, messages |-> rest.messages \o <<newMessage>>]

\* messages[i] = &newMessage in front of what the later iterations give
SplitPrepend(newMessage, rest) ==
    [heap |-> rest.heap, messages |-> <<newMessage>> \o rest.messages]

\* the loop of SplitDNSMessage from question i on: [heap, messages].  The new
\* message's header is a copy of m's at a new address; the header that
\* newMessage.Header.ModifyDNSHeader(ModifyQDCount(1)) returns is a second
\* copy, allocated and dropped, as the call's results are not assigned.
RECURSIVE SplitFrom(_, _, _)
SplitFrom(hp, m, i) ==
    IF i > hp[m.Header].QDCount THEN [heap |-> hp, messages |-> <<>>]
    ELSE SplitPrepend(
             DNSMessage(Len(hp) + 1, <<m.Questions[i]>>, m.Answers),
             SplitFrom(ModifyDNSHeader(Append(hp, hp[m.Header]), Len(hp) + 1,
                                       <<Mod("QDCount", 1)>>).heap,
                       m, i + 1))

\* m.SplitDNSMessage() with the headers in hp: [heap, messages]
SplitDNSMessage(hp, m) == SplitFrom(hp, m, 1)

----------------------------------------------------------------------------
(* header exercises: a header is built, then one of its operations is called *)

\* how many mutators one ModifyDNSHeader call is handed
MaxMods == 3
\* validators are probed with 0..MaxProbe and the ends of the wider ranges
MaxProbe == 17

FlagSamples == {0, 256, 30720, 33152, 43605, 65535}

CodecHeaders ==
    {DNSHeader(id, f, qd, an, ns, ar) :
        id \in {0, 4660}, f \in FlagSamples, qd \in {1, 258},
        an \in {0, 772}, ns \in {0, 1286}, ar \in {0, 65535}}

ModifyHeaders ==
    {DNSHeader(4660, f, qd, 772, 0, 65535) : f \in FlagSamples, qd \in {1, 258}}

ProbeValues == (0 .. MaxProbe) \cup {255, 256, 65535}

ModSamples ==
    {Mod("QR", 1), Mod("OpCode", 2), Mod("RCode", 4), Mod("ANCount", 7),
     Mod("Z", 5), Mod("QR", 2), Mod("OpCode", 16), Mod("Z", 8), Mod("RCode", 3)}

\* the header exercises before any call, and while another part is exercised
HeaderIdle ==
    /\ hdr = 1
    /\ hpc = "new"
    /\ hbytes = <<>>
    /\ hdec = [ptr |-> 0, err |-> Nil]
    /\ vres = [field |-> "", value |-> 0, err |-> Nil]
    /\ mods = <<>>
    /\ mret = [ptr |-> 0, err |-> Nil]
    /\ hopts = [kind |-> "none"]

\* the codec exercises while another part is exercised
CodecIdle ==
    /\ cpc = "idle"
    /\ cin = [kind |-> "none"]
    /\ cmsg = ZeroMessage
    /\ wire = <<>>
    /\ dmsg = ZeroMessage
    /\ cerr = Nil
    /\ wire2 = <<>>

\* the utils.go exercises while another part is exercised
UtilIdle ==
    /\ upc = "idle"
    /\ uin = [kind |-> "none"]
    /\ uout = [kind |-> "none"]

\* the relay while another part is exercised
FwdIdle ==
    /\ fpc = "idle"
    /\ query = [kind |-> "none"]
    /\ clientMessage = ZeroMessage
    /\ requestMessages = <<>>
    /\ downstreamResponses = <<>>
    /\ requests = <<>>
    /\ replies = <<>>
    /\ response = <<>>
    /\ ferr = Nil

HeaderInit(hs) ==
    /\ \E h \in hs : heap = <<h>>
    /\ CodecIdle
    /\ FwdIdle
    /\ UtilIdle
    /\ hdr = 1
    /\ hpc = "new"
    /\ hbytes = <<>>
    /\ hdec = [ptr |-> 0, err |-> Nil]
    /\ vres = [field |-> "", value |-> 0, err |-> Nil]
    /\ mods = <<>>
    /\ mret = [ptr |-> 0, err |-> Nil]
    /\ hopts = [kind |-> "none"]

\* bytes, err := header.Encode()
HEncode ==
    /\ hpc = "new"
    /\ hbytes' = EncodeHeader(heap[hdr])
    /\ hpc' = "encoded"
    /\ UNCHANGED <<heap, hdr, hdec, vres, mods, mret, hopts, cvars, fvars, uvars>>

\* received := &DNSHeader{}; err := received.Decode(bytes.NewReader(bytes))
HDecode ==
    /\ hpc = "encoded"
    /\ LET r == DecodeHeader(hbytes, 0)
       IN  /\ heap' = Append(heap, r.hdr)
           /\ hdec' = [ptr |-> Len(heap) + 1, err |-> r.err]
    /\ hpc' = "decoded"
    /\ UNCHANGED <<hdr, hbytes, vres, mods, mret, hopts, cvars, fvars, uvars>>

\* err := validateX(v)()
HValidate(field, v) ==
    /\ hpc = "new"
    /\ vres' = [field |-> field, value |-> v, err |-> Validate(field, v)]
    /\ hpc' = "validated"
    /\ UNCHANGED <<heap, hdr, hbytes, hdec, mods, mret, hopts, cvars, fvars, uvars>>

\* the caller writes one more mutator into the argument list
HAddMod(m) ==
    /\ hpc = "new"
    /\ Len(mods) < MaxMods
    /\ mods' = Append(mods, m)
    /\ UNCHANGED <<heap, hpc, hdr, hbytes, hdec, vres, mret, hopts, cvars, fvars, uvars>>

\* ret, err := header.ModifyDNSHeader(mods...)
HModify ==
    /\ hpc = "new"
    /\ LET r == ModifyDNSHeader(heap, hdr, mods)
       IN  /\ heap' = r.heap
           /\ mret' = [ptr |-> r.ptr, err |-> r.err]
    /\ hpc' = "modified"
    /\ UNCHANGED <<hdr, hbytes, hdec, vres, mods, hopts, cvars, fvars, uvars>>

HeaderNext ==
    \/ HEncode
    \/ HDecode
    \/ \E field \in FlagFields, v \in ProbeValues : HValidate(field, v)

\* ret.ID++ : the caller writes through the pointer a successful
\* ModifyDNSHeader returned
HWriteReturned ==
    /\ hpc = "modified"
    /\ mret.err = Nil
    /\ heap' = [heap EXCEPT ![mret.ptr].ID = (@ + 1) % 65536]
    /\ hpc' = "written"
    /\ UNCHANGED <<hdr, hbytes, hdec, vres, mods, mret, hopts, cvars, fvars, uvars>>

ModifyNext ==
    \/ \E m \in ModSamples : HAddMod(m)
    \/ HModify
    \/ HWriteReturned

SpecHeader == HeaderInit(CodecHeaders) /\ [][HeaderNext]_vars

SpecModify == HeaderInit(ModifyHeaders) /\ [][ModifyNext]_vars

\* every setter with every probe value
CountFields == {"QDCount", "ANCount", "NSCount", "ARCount"}
SetterSamples == {Mod(k, v) : k \in FlagFields \cup CountFields, v \in ProbeValues}

\* ret, err := header.ModifyDNSHeader(m) for one setter m
HSetOne(m) ==
    /\ hpc = "new"
    /\ mods = <<>>
    /\ mods' = <<m>>
    /\ LET r == ModifyDNSHeader(heap, hdr, <<m>>)
       IN  /\ heap' = r.heap
           /\ mret' = [ptr |-> r.ptr, err |-> r.err]
    /\ hpc' = "modified"
    /\ UNCHANGED <<hdr, hbytes, hdec, vres, hopts, cvars, fvars, uvars>>

SetterNext == \E m \in SetterSamples : HSetOne(m)

SpecSetter == HeaderInit(ModifyHeaders) /\ [][SetterNext]_vars

\* options within and beyond the width of every flag sub-field
OptionSamples ==
    {DNSHeaderOptions(4660, qr, op, aa, 1, rd, ra, z, rc, 1, 0, 0, 0) :
        qr \in {0, 1, 2}, op \in {0, 5, 16}, aa \in {0, 2}, rd \in {0, 1},
        ra \in {0, 1, 3}, z \in {0, 7, 8}, rc \in {0, 15, 16}}

\* no header exists yet
NewInit ==
    /\ heap = <<>>
    /\ CodecIdle
    /\ FwdIdle
    /\ UtilIdle
    /\ hdr = 0
    /\ hpc = "start"
    /\ hbytes = <<>>
    /\ hdec = [ptr |-> 0, err |-> Nil]
    /\ vres = [field |-> "", value |-> 0, err |-> Nil]
    /\ mods = <<>>
    /\ mret = [ptr |-> 0, err |-> Nil]
    /\ hopts = [kind |-> "none"]

\* header, err := NewDNSHeader(opts)
HNew(opts) ==
    /\ hpc = "start"
    /\ hopts' = opts
    /\ LET r == NewDNSHeader(opts)
       IN  /\ mret' = [ptr |-> IF r.err = Nil THEN 1 ELSE 0, err |-> r.err]
           /\ heap' = IF r.err = Nil THEN <<r.hdr>> ELSE <<>>
           /\ hdr' = IF r.err = Nil THEN 1 ELSE 0
           /\ hpc' = IF r.err = Nil THEN "new" ELSE "failed"
    /\ UNCHANGED <<hbytes, hdec, vres, mods, cvars, fvars, uvars>>

NewNext ==
    \/ \E opts \in OptionSamples : HNew(opts)
    \/ HEncode

SpecNew == NewInit /\ [][NewNext]_vars

----------------------------------------------------------------------------
(* codec exercises: a message is built and encoded, or a datagram arrives;  *)
(* the bytes are decoded, and the decoded message is encoded again          *)

\* how many labels a name of the exercises has at most
MaxLabels == 2

\* a label of n bytes 'a'
LongLabel(n) == DNSLabel(n, [i \in 1 .. n |-> 97])

\* labels of every kind of content: letters, a zero byte, bytes of 0xC0 and
\* above, and the lengths around 63, 192 and 255
ShortLabels ==
    {DNSLabel(1, <<65>>), DNSLabel(2, <<65, 66>>), DNSLabel(1, <<0>>),
     DNSLabel(2, <<0, 65>>), DNSLabel(1, <<192>>), DNSLabel(2, <<255, 12>>)}

LabelSamples == ShortLabels \cup {LongLabel(63), LongLabel(191), LongLabel(192),
                                  LongLabel(255)}

SeqsUpTo(S, lo, hi) == UNION {[1 .. n -> S] : n \in lo .. hi}

\* the strings "example.com", "example.com.", "a.b", "a" and "8.8.8.8"
StrExampleCom == <<101, 120, 97, 109, 112, 108, 101, 46, 99, 111, 109>>
StrExampleComDot == StrExampleCom \o <<46>>
StrAB == <<97, 46, 98>>
StrA == <<97>>
Str8888 == <<56, 46, 56, 46, 56, 46, 56>>

\* every OPCODE, with the other flag bits and the RCODE varied
OpCodeFlags == {op * 2048 + rest : op \in 0 .. 15, rest \in {0, 1923, 34815}}

\* a message of one question whose name is a label sequence as Decode stores
\* it, the terminating null label last
LabelInputs ==
    {[kind |-> "labels", hdr |-> DNSHeader(4660, f, 1, 0, 0, 0),
      name |-> n \o <<NullLabel>>, type |-> 1, class |-> 1] :
        f \in OpCodeFlags, n \in SeqsUpTo({DNSLabel(1, <<65>>)}, 0, 1)}
    \cup
    {[kind |-> "labels", hdr |-> DNSHeader(4660, 256, 1, 0, 0, 0),
      name |-> n \o <<NullLabel>>, type |-> t, class |-> 1] :
        t \in {1, 28}, n \in SeqsUpTo(LabelSamples, 1, MaxLabels)}

\* a message of one question and nrr answer records built from dotted names
DottedInputs ==
    {[kind |-> "dotted", hdr |-> DNSHeader(4660, f, 1, nrr, 0, 0),
      name |-> s, type |-> 1, class |-> 1, ttl |-> 60, length |-> 4,
      data |-> Str8888, nrr |-> nrr] :
        f \in {0, 256, 259}, s \in {StrExampleCom, StrExampleComDot, StrAB, StrA},
        nrr \in 0 .. 1}

\* a datagram of two questions, the second name being literal labels and then
\* a pointer to label j of the first name (j = Len(first) + 1: to its end)
CompressedInputs ==
    {[kind |-> "compressed", hdr |-> DNSHeader(4660, 256, 2, 0, 0, 0),
      first |-> n, literal |-> l, j |-> j] :
        n \in SeqsUpTo(ShortLabels, 1, MaxLabels),
        l \in SeqsUpTo(ShortLabels, 0, 1),
        j \in 1 .. (MaxLabels + 1)} \
    {i \in [kind : {"compressed"}, hdr : {DNSHeader(4660, 256, 2, 0, 0, 0)},
            first : SeqsUpTo(ShortLabels, 1, MaxLabels),
            literal : SeqsUpTo(ShortLabels, 0, 1),
            j : 1 .. (MaxLabels + 1)] : i.j > Len(i.first) + 1}

\* a name on the wire as a sender writes it: the labels, then the zero byte
WireName(labels) == EncodeRecordName(labels, 1) \o <<0>>

\* the offset in the message of label j of a name that starts at offset start
RECURSIVE LabelOffset(_, _, _)
LabelOffset(labels, j, start) ==
    IF j <= 1 THEN start
    ELSE LabelOffset(Tail(labels), j - 1, start + 1 + Len(labels[1].Content))

\* the two bytes of a compression pointer to offset o
Pointer(o) == <<192 + (o \div 256), o % 256>>

\* the datagram of a compressed input
CompressedDatagram(i) ==
    EncodeHeader(i.hdr) \o WireName(i.first) \o BE16(1) \o BE16(1)
        \o EncodeRecordName(i.literal, 1)
        \o Pointer(LabelOffset(i.first, i.j, DNSHeaderSize)) \o BE16(1) \o BE16(1)

\* names without a zero byte or a byte of 0xC0 and above in their labels
PlainNames == {<<DNSLabel(1, <<65>>)>>, <<DNSLabel(2, <<65, 66>>), DNSLabel(1, <<65>>)>>}

\* a datagram of two questions as CompressedDatagram writes it, but the
\* pointer of the second name is to offset target, and only the first keep
\* bytes arrive
CutFull(i) ==
    EncodeHeader(i.hdr) \o WireName(i.first) \o BE16(1) \o BE16(1)
        \o EncodeRecordName(i.literal, 1) \o Pointer(i.target)
        \o BE16(1) \o BE16(1)

CutDatagram(i) == SubSeq(CutFull(i), 1, i.keep)

\* the datagrams that end too early: a strict prefix of a datagram whose
\* pointer is to the first name, or any prefix of one whose pointer is to
\* the end of the datagram or beyond it
CutInputs ==
    {i \in [kind : {"cut"}, hdr : {DNSHeader(4660, 256, 2, 0, 0, 0)},
            first : PlainNames, literal : {<<>>, <<DNSLabel(1, <<66>>)>>},
            target : {DNSHeaderSize, 30, 40}, keep : 0 .. 30] :
        /\ i.keep <= Len(CutFull(i))
        /\ i.target = DNSHeaderSize => i.keep < Len(CutFull(i))
        /\ i.target # DNSHeaderSize => i.target >= Len(CutFull(i))}

\* datagrams of one question whose name holds a cycle of pointers: a pointer
\* to itself, two pointers to each other, a label and a pointer back to it,
\* each behind none or one plain label
LoopInputs ==
    {[kind |-> "loop", hdr |-> DNSHeader(4660, 256, 1, 0, 0, 0), literal |-> l,
      cycle |-> c] :
        l \in {<<>>, <<DNSLabel(1, <<66>>)>>},
        c \in {"self", "pair", "label"}}

LoopDatagram(i) ==
    LET at == DNSHeaderSize + Len(EncodeRecordName(i.literal, 1))
    IN  EncodeHeader(i.hdr) \o EncodeRecordName(i.literal, 1)
            \o (CASE i.cycle = "self" -> Pointer(at)
                   [] i.cycle = "pair" -> Pointer(at + 2) \o Pointer(at)
                   [] i.cycle = "label" -> <<1, 65>> \o Pointer(at))
            \o BE16(1) \o BE16(1)

\* datagrams of three questions of different type and class: the second name
\* is literal labels and a pointer to the first name, the third is literal
\* labels and a pointer to the second name
ChainInputs ==
    [kind : {"chain"}, hdr : {DNSHeader(4660, 256, 3, 0, 0, 0)}, first : PlainNames,
     second : {<<>>, <<DNSLabel(1, <<66>>)>>},
     third : {<<>>, <<DNSLabel(1, <<67>>)>>, <<DNSLabel(1, <<67>>), DNSLabel(1, <<68>>)>>}]

\* the offsets of the second and of the third name of a chain datagram
ChainSecondAt(i) == DNSHeaderSize + Len(WireName(i.first)) + 4
ChainThirdAt(i) == ChainSecondAt(i) + Len(EncodeRecordName(i.second, 1)) + 2 + 4

ChainDatagram(i) ==
    EncodeHeader(i.hdr) \o WireName(i.first) \o BE16(1) \o BE16(1)
        \o EncodeRecordName(i.second, 1) \o Pointer(DNSHeaderSize)
        \o BE16(28) \o BE16(3)
        \o EncodeRecordName(i.third, 1) \o Pointer(ChainSecondAt(i))
        \o BE16(15) \o BE16(4)

CodecInit ==
    /\ heap = <<>>
    /\ HeaderIdle
    /\ FwdIdle
    /\ UtilIdle
    /\ cpc = "input"
    /\ \/ cin \in LabelInputs
       \/ cin \in DottedInputs
       \/ cin \in CompressedInputs
       \/ cin \in CutInputs
       \/ cin \in LoopInputs
       \/ cin \in ChainInputs
    /\ cmsg = ZeroMessage
    /\ wire = <<>>
    /\ dmsg = ZeroMessage
    /\ cerr = Nil
    /\ wire2 = <<>>

\* the message of a "labels" input: the header, and the question as a literal
BuildFromLabels ==
    /\ cpc = "input"
    /\ cin.kind = "labels"
    /\ heap' = <<cin.hdr>>
    /\ cmsg' = DNSMessage(1, <<DNSQuestion(cin.name, cin.type, cin.class)>>, <<>>)
    /\ cpc' = "built"
    /\ UNCHANGED <<hvars, fvars, uvars, cin, wire, dmsg, cerr, wire2>>

\* the message of a "dotted" input: NewDNSQuestion and NewDNSAnswer
BuildFromStrings ==
    /\ cpc = "input"
    /\ cin.kind = "dotted"
    /\ LET q == NewDNSQuestion(cin.name, cin.type, cin.class)
           a == NewDNSAnswer([k \in 1 .. 1 |->
                    ResourceRecordOptions(cin.name, cin.type, cin.class, cin.ttl,
                                          cin.length, cin.data)])
       IN  /\ heap' = <<cin.hdr>>
           /\ cmsg' = DNSMessage(1, <<q.question>>,
                                 IF cin.nrr = 0 THEN <<>> ELSE <<a.answer>>)
           /\ cerr' = IF q.err # Nil THEN q.err ELSE a.err
    /\ cpc' = "built"
    /\ UNCHANGED <<hvars, fvars, uvars, cin, wire, dmsg, wire2>>

\* bytes, err := message.Encode()
CEncode ==
    /\ cpc = "built"
    /\ cerr = Nil
    /\ wire' = EncodeMessage(heap, cmsg)
    /\ cpc' = "encoded"
    /\ UNCHANGED <<heap, hvars, fvars, uvars, cin, cmsg, dmsg, cerr, wire2>>

\* a datagram arrives
CReceive ==
    /\ cpc = "input"
    /\ cin.kind \in {"compressed", "cut", "loop", "chain"}
    /\ wire' = CASE cin.kind = "cut" -> CutDatagram(cin)
                 [] cin.kind = "chain" -> ChainDatagram(cin)
                 [] cin.kind = "loop" -> LoopDatagram(cin)
                 [] OTHER -> CompressedDatagram(cin)
    /\ cpc' = "encoded"
    /\ UNCHANGED <<heap, hvars, fvars, uvars, cin, cmsg, dmsg, cerr, wire2>>

\* m := &DNSMessage{}; err := m.Decode(bytes.NewReader(wire)).  When the
\* recursion of ReadQName has no end the call does not return: the runtime
\* ends the process
CDecode ==
    /\ cpc = "encoded"
    /\ LET r == DecodeMessage(heap, ZeroMessage, wire)
       IN  /\ heap' = r.heap
           /\ dmsg' = r.msg
           /\ cerr' = r.err
           /\ cpc' = IF r.err = StackOverflow THEN "crashed" ELSE "decoded"
    /\ UNCHANGED <<hvars, fvars, uvars, cin, cmsg, wire, wire2>>

\* bytes, err := m.Encode() on the decoded message
CReEncode ==
    /\ cpc = "decoded"
    /\ cerr = Nil
    /\ wire2' = EncodeMessage(heap, dmsg)
    /\ cpc' = "reencoded"
    /\ UNCHANGED <<heap, hvars, fvars, uvars, cin, cmsg, wire, dmsg, cerr>>

CodecNext ==
    \/ BuildFromLabels
    \/ BuildFromStrings
    \/ CEncode
    \/ CReceive
    \/ CDecode
    \/ CReEncode

SpecCodec == CodecInit /\ [][CodecNext]_vars

----------------------------------------------------------------------------
(* utils.go exercises: IPToBytes and StringToLabels are called on a string *)

MaxParts == 5
MaxSegments == 2

\* the parts of an address: the text, whether it is an integer in 0..255,
\* and which
PartSamples ==
    { [text |-> <<56>>, octet |-> TRUE, val |-> 8],            \* "8"
      [text |-> <<50, 53, 53>>, octet |-> TRUE, val |-> 255],  \* "255"
      [text |-> <<50, 53, 54>>, octet |-> FALSE, val |-> 256], \* "256"
      [text |-> <<45, 49>>, octet |-> FALSE, val |-> -1],      \* "-1"
      [text |-> <<97>>, octet |-> FALSE, val |-> 0] }          \* "a"

LengthSamples == {2, 4, MaxParts}

IPInputs ==
    UNION { [kind : {"ip"}, parts : [1 .. k -> PartSamples], n : LengthSamples]
            : k \in 1 .. MaxParts }

\* the byte lengths of the segments of a name
SegmentLengths == {0, 1, 3, 255, 256, 300}

StringInputs ==
    UNION { [kind : {"string"}, segs : [1 .. k -> SegmentLengths]]
            : k \in 1 .. MaxSegments }

\* the strings joined with "."
RECURSIVE JoinDots(_)
JoinDots(strs) ==
    IF Len(strs) = 0 THEN <<>>
    ELSE IF Len(strs) = 1 THEN strs[1]
    ELSE strs[1] \o <<Dot>> \o JoinDots(Tail(strs))

\* n times the letter a
Letters(n) == [i \in 1 .. n |-> 97]

IPAddressOf(in) == JoinDots([i \in 1 .. Len(in.parts) |-> in.parts[i].text])
NameOf(in) == JoinDots([i \in 1 .. Len(in.segs) |-> Letters(in.segs[i])])

UtilInit ==
    /\ heap = <<>>
    /\ HeaderIdle
    /\ CodecIdle
    /\ FwdIdle
    /\ upc = "input"
    /\ uin \in IPInputs \cup StringInputs
    /\ uout = [kind |-> "none"]

UIPToBytes ==
    /\ upc = "input"
    /\ uin.kind = "ip"
    /\ uout' = IPToBytes(IPAddressOf(uin), uin.n)
    /\ upc' = IF uout'.err = IndexOutOfRange THEN "crashed" ELSE "returned"
    /\ UNCHANGED <<heap, hvars, cvars, fvars, uin>>

UStringToLabels ==
    /\ upc = "input"
    /\ uin.kind = "string"
    /\ uout' = StringToLabels(NameOf(uin))
    /\ upc' = "returned"
    /\ UNCHANGED <<heap, hvars, cvars, fvars, uin>>

UtilNext ==
    \/ UIPToBytes
    \/ UStringToLabels

SpecUtil == UtilInit /\ [][UtilNext]_vars

----------------------------------------------------------------------------
(* the relay: main's event loop and DNSServerHandler.  A client sends a     *)
(* query, the relay forwards its questions one by one to the resolver,      *)
(* reads one reply for each, and answers the client                         *)

\* how many questions a client's query has at most
MaxQuestions == 2
\* how many answer records a reply of the resolver has at most
MaxAnswers == 2

QueryNames ==
    {<<DNSLabel(1, <<65>>)>>, <<DNSLabel(2, <<65, 66>>), DNSLabel(1, <<65>>)>>}

\* a client's query: the flags, the type asked for, the names of the
\* questions, whether the names after the first end in a pointer to the first
\* name, how many bytes the datagram lost at its end, and the ANCOUNT of its
\* header (no record follows the questions); at most one of the flags, the
\* type, the loss and the ANCOUNT is not that of a plain query for an address
Queries ==
    {q \in [kind : {"query"}, flags : {256, 36607}, type : {1, 28},
            names : SeqsUpTo(QueryNames, 0, MaxQuestions),
            compressed : BOOLEAN, cut : {0, 3}, ancount : {0, 1}] :
        /\ q.compressed => Len(q.names) >= 2 /\ q.flags = 256 /\ q.cut = 0
        /\ <<q.flags, q.type, q.cut, q.ancount>> \in
                {<<256, 1, 0, 0>>, <<36607, 1, 0, 0>>, <<256, 28, 0, 0>>,
                 <<256, 1, 3, 0>>, <<256, 1, 0, 1>>}}

\* the name of question i of query q
QuestionName(q, i) ==
    IF q.compressed /\ i > 1 THEN q.names[i] \o q.names[1] ELSE q.names[i]

\* the class asked for: CH with the type AAAA, IN otherwise
QueryClass(q) == IF q.type = 28 THEN 3 ELSE 1

\* the question section as the client writes it
RECURSIVE QueryQuestions(_, _)
QueryQuestions(q, i) ==
    IF i > Len(q.names) THEN <<>>
    ELSE (IF q.compressed /\ i > 1
          THEN EncodeRecordName(q.names[i], 1) \o Pointer(DNSHeaderSize)
          ELSE WireName(q.names[i]))
         \o BE16(q.type) \o BE16(QueryClass(q)) \o QueryQuestions(q, i + 1)

\* the NSCOUNT and ARCOUNT of the query's header (no record follows the
\* questions): not zero in the query with the flags set
QueryNSCount(q) == IF q.flags = 256 THEN 0 ELSE 2
QueryARCount(q) == IF q.flags = 256 THEN 0 ELSE 1

\* the datagram of query q
QueryDatagram(q) ==
    LET full == EncodeHeader(DNSHeader(4660, q.flags, Len(q.names), q.ancount,
                                       QueryNSCount(q), QueryARCount(q)))
                    \o QueryQuestions(q, 1)
    IN  SubSeq(full, 1, Len(full) - q.cut)

\* what the resolver sends back: so many answer records, or a datagram too
\* short to hold a header
Replies ==
    {[answers |-> k, short |-> FALSE] : k \in 0 .. MaxAnswers}
    \cup {[answers |-> 0, short |-> TRUE]}

\* the address record j of the reply to request i
AnswerData(i, j) == <<8, 8, i, j>>

\* answer records j..k of the reply to request i, as the resolver writes them:
\* the name a pointer to the question's, type A, class IN, TTL 60
RECURSIVE ReplyRecords(_, _, _)
ReplyRecords(i, j, k) ==
    IF j > k THEN <<>>
    ELSE Pointer(DNSHeaderSize) \o BE16(1) \o BE16(1) \o BE32(60) \o BE16(4)
             \o AnswerData(i, j) \o ReplyRecords(i, j + 1, k)

\* the flags of a reply: QR, RD and RA set, and RCODE 3 (name error) when it
\* holds no answer
ReplyFlags(r) == IF r.answers = 0 THEN 33155 ELSE 33152

\* the ID of a reply: that of the request, or the next one in a reply
\* without answer (a reply that is not to this request)
ReplyID(req, r) ==
    IF r.answers = 0 THEN (ReadBE16(req, 0) + 1) % 65536 ELSE ReadBE16(req, 0)

\* the resolver's reply r to request i, whose datagram was req: the question
\* section of the request behind the reply's header
ReplyDatagram(req, i, r) ==
    IF r.short THEN SubSeq(req, 1, 5)
    ELSE EncodeHeader(DNSHeader(ReplyID(req, r), ReplyFlags(r), 1, r.answers, 0, 0))
             \o SubSeq(req, DNSHeaderSize + 1, Len(req))
             \o ReplyRecords(i, 1, r.answers)

FwdInit ==
    /\ heap = <<>>
    /\ HeaderIdle
    /\ CodecIdle
    /\ UtilIdle
    /\ fpc = "listen"
    /\ query = [kind |-> "none"]
    /\ clientMessage = ZeroMessage
    /\ requestMessages = <<>>
    /\ downstreamResponses = <<>>
    /\ requests = <<>>
    /\ replies = <<>>
    /\ response = <<>>
    /\ ferr = Nil

\* main: ReadFromUDP gives the datagram of query q; clientMessage.Decode (d
\* is what it gives), then SplitDNSMessage (s is what it gives).  The objects
\* of the iteration before are garbage.
ClientSplit(d, s) ==
    /\ clientMessage' = d.msg
    /\ ferr' = d.err
    /\ IF d.err # Nil
       THEN heap' = d.heap /\ requestMessages' = <<>> /\ fpc' = "stopped"
       ELSE /\ heap' = s.heap
            /\ requestMessages' = s.messages
            /\ fpc' = IF Len(s.messages) = 0 THEN "merge" ELSE "handler"

ClientDecoded(d) == ClientSplit(d, SplitDNSMessage(d.heap, d.msg))

ClientRecv(q) ==
    /\ fpc = "listen"
    /\ query' = q
    /\ ClientDecoded(DecodeMessage(<<>>, ZeroMessage, QueryDatagram(q)))
    /\ downstreamResponses' = <<>>
    /\ requests' = <<>>
    /\ replies' = <<>>
    /\ response' = <<>>
    /\ UNCHANGED <<hvars, cvars, uvars>>

\* DNSServerHandler, the first half of an iteration: DialUDP, the header of
\* the request replaced by ModifyDNSHeader(ModifyQDCount(1)), Encode, Write
SendRequest ==
    /\ fpc = "handler"
    /\ LET i == Len(downstreamResponses) + 1
           md == ModifyDNSHeader(heap, requestMessages[i].Header,
                                 <<Mod("QDCount", 1)>>)
           requestMessage == [requestMessages[i] EXCEPT !.Header = md.ptr]
       IN  /\ heap' = md.heap
           /\ requestMessages' = [requestMessages EXCEPT ![i] = requestMessage]
           /\ requests' = Append(requests, EncodeMessage(md.heap, requestMessage))
    /\ fpc' = "await"
    /\ UNCHANGED <<hvars, cvars, uvars, query, clientMessage, downstreamResponses,
                   replies, response, ferr>>

\* a handler that goes on to the next request when a reply does not decode
RecvReplyContinue(r) ==
    /\ fpc = "await"
    /\ LET i == Len(downstreamResponses) + 1
           d == DecodeMessage(heap, ZeroMessage, ReplyDatagram(requests[i], i, r))
       IN  /\ heap' = d.heap
           /\ ferr' = d.err
           /\ downstreamResponses' = Append(downstreamResponses, d.msg)
           /\ fpc' = IF i = Len(requestMessages) THEN "merge" ELSE "handler"
    /\ replies' = Append(replies, r)
    /\ UNCHANGED <<hvars, cvars, uvars, query, clientMessage, requestMessages, requests,
                   response>>

\* a handler that puts each reply in front of the ones it has
RecvReplyPrepend(r) ==
    /\ fpc = "await"
    /\ LET i == Len(downstreamResponses) + 1
           d == DecodeMessage(heap, ZeroMessage, ReplyDatagram(requests[i], i, r))
       IN  /\ heap' = d.heap
           /\ ferr' = d.err
           /\ IF d.err # Nil
              THEN /\ fpc' = "stopped"
                   /\ UNCHANGED downstreamResponses
              ELSE /\ downstreamResponses' = <<d.msg>> \o downstreamResponses
                   /\ fpc' = IF i = Len(requestMessages) THEN "merge" ELSE "handler"
    /\ replies' = Append(replies, r)
    /\ UNCHANGED <<hvars, cvars, uvars, query, clientMessage, requestMessages, requests,
                   response>>

\* DNSServerHandler, the second half of an iteration: Read gives the reply r
\* of the resolver, downstreamMessage.Decode, append
RecvReply(r) ==
    /\ fpc = "await"
    /\ LET i == Len(downstreamResponses) + 1
           d == DecodeMessage(heap, ZeroMessage, ReplyDatagram(requests[i], i, r))
       IN  /\ heap' = d.heap
           /\ ferr' = d.err
           /\ IF d.err # Nil
              THEN /\ fpc' = "stopped"
                   /\ UNCHANGED downstreamResponses
              ELSE /\ downstreamResponses' = Append(downstreamResponses, d.msg)
                   /\ fpc' = IF i = Len(requestMessages) THEN "merge" ELSE "handler"
    /\ replies' = Append(replies, r)
    /\ UNCHANGED <<hvars, cvars, uvars, query, clientMessage, requestMessages, requests,
                   response>>

\* a handler whose Read gives up after a while, main going on to the next
\* client datagram
ReadTimesOut ==
    /\ fpc = "await"
    /\ fpc' = "listen"
    /\ ferr' = [kind |-> "Timeout"]
    /\ UNCHANGED <<heap, hvars, cvars, uvars, query, clientMessage, requestMessages,
                   downstreamResponses, requests, replies, response>>

\* DNSServerHandler: resolverConn.Read returns an error (nothing listens at
\* the resolver's address); main leaves the event loop
ReadFails ==
    /\ fpc = "await"
    /\ fpc' = "stopped"
    /\ ferr' = [kind |-> "ReadError"]
    /\ UNCHANGED <<heap, hvars, cvars, uvars, query, clientMessage, requestMessages,
                   downstreamResponses, requests, replies, response>>

\* answers[0] of every downstream response from i on that has answers
RECURSIVE Collected(_, _)
Collected(responses, i) ==
    IF i > Len(responses) THEN <<>>
    ELSE (IF Len(responses[i].Answers) > 0 THEN <<responses[i].Answers[1]>>
          ELSE <<>>) \o Collected(responses, i + 1)

\* main, after DNSServerHandler returned: the questions get type 1 and class
\* 1, the first answer of each response is collected, the header gets the
\* answer count and QR 1, AA, TC, RA, Z 0; Encode, WriteToUDP
Respond ==
    /\ fpc = "merge"
    /\ LET collected == Collected(downstreamResponses, 1)
           answerCount == Len(collected) % 65536
           md == ModifyDNSHeader(heap, clientMessage.Header,
                     <<Mod("ANCount", answerCount), Mod("QR", 1), Mod("AA", 0),
                       Mod("TC", 0), Mod("RA", 0), Mod("Z", 0)>>)
           m == DNSMessage(md.ptr,
                    [i \in 1 .. Len(clientMessage.Questions) |->
                        ModifyDNSQuestion(clientMessage.Questions[i], 1, 1)],
                    clientMessage.Answers \o collected)
       IN  /\ heap' = md.heap
           /\ clientMessage' = m
           /\ ferr' = md.err
           /\ IF md.err # Nil
              THEN fpc' = "stopped" /\ UNCHANGED response
              ELSE fpc' = "listen" /\ response' = EncodeMessage(md.heap, m)
    /\ UNCHANGED <<hvars, cvars, uvars, query, requestMessages, downstreamResponses,
                   requests, replies>>

FwdNext ==
    \/ \E q \in Queries : ClientRecv(q)
    \/ SendRequest
    \/ \E r \in Replies : RecvReply(r)
    \/ ReadFails
    \/ Respond

SpecFwd == FwdInit /\ [][FwdNext]_vars

----------------------------------------------------------------------------
(* the claims *)

\* C1: Decode over the bytes Encode produced gives a header equal to the
\* original field for field, and Encode gives exactly 12 bytes: ID, Flags,
\* QDCOUNT, ANCOUNT, NSCOUNT, ARCOUNT in that order, each big-endian.
C1_HeaderRoundTrip ==
    /\ hpc \in {"encoded", "decoded"} =>
        /\ Len(hbytes) = 12
        /\ LET h == heap[hdr]
               w(k) == hbytes[2 * k - 1] * 256 + hbytes[2 * k]
           IN  /\ \A i \in 1 .. 12 : hbytes[i] \in 0 .. 255
               /\ w(1) = h.ID /\ w(2) = h.Flags /\ w(3) = h.QDCount
               /\ w(4) = h.ANCount /\ w(5) = h.NSCount /\ w(6) = h.ARCount
    /\ hpc = "decoded" =>
        /\ hdec.err = Nil
        /\ hdec.ptr # hdr
        /\ heap[hdec.ptr] = heap[hdr]

C1_Witness ==
    /\ hpc = "decoded"
    /\ heap[hdr] = DNSHeader(4660, 33152, 258, 772, 1286, 65535)
    /\ heap[hdec.ptr].Flags = 33152

\* the bit width of each flag sub-field (QR:1, OPCODE:4, AA:1, TC:1, RD:1,
\* RA:1, Z:3, RCODE:4)
FieldWidth(field) ==
    CASE field \in {"QR", "AA", "TC", "RD", "RA"} -> 1
      [] field \in {"OpCode", "RCode"} -> 4
      [] field = "Z" -> 3

\* C9: each flag sub-field validator accepts exactly the values within the
\* field's bit width, and the error of a rejected value names the field.
C9_ValidatorsExact ==
    hpc = "validated" =>
        /\ (vres.err = Nil) <=> (vres.value < 2 ^ FieldWidth(vres.field))
        /\ vres.err # Nil =>
            /\ vres.err.kind = "OutOfRange"
            /\ vres.err.field = vres.field
            /\ vres.err.value = vres.value

C9_Witness ==
    /\ hpc = "validated"
    /\ vres.field = "OpCode"
    /\ vres.value = 16
    /\ vres.err = OutOfRange("OpCode", 16)

\* a mutator's value is legal when it fits the bit width of its field; the
\* count setters take any value
LegalMod(m) == m.kind \in FlagFields => m.val < 2 ^ FieldWidth(m.kind)

\* the index of the first mutator of ms that fails, 0 when none does
FirstFailing(ms) ==
    IF \A i \in 1 .. Len(ms) : LegalMod(ms[i]) THEN 0
    ELSE CHOOSE k \in 1 .. Len(ms) :
            /\ ~LegalMod(ms[k])
            /\ \A i \in 1 .. (k - 1) : LegalMod(ms[i])

\* C10: when the k-th mutator is the first to fail, ModifyDNSHeader returns
\* the error together with the original header, whose fields are what they
\* were before the call; the private copy holds the effect of mutators
\* 1..k-1 only, so the mutators after k were not applied.
C10_AbortOnFirstFailure ==
    [][(hpc = "new" /\ hpc' = "modified" /\ FirstFailing(mods) # 0) =>
        LET k == FirstFailing(mods)
        IN  /\ mret'.err = OutOfRange(mods[k].kind, mods[k].val)
            /\ mret'.ptr = hdr
            /\ heap'[hdr] = heap[hdr]
            /\ \A p \in 1 .. Len(heap) : heap'[p] = heap[p]
            /\ heap'[Len(heap')] =
                   ApplyMods(heap[hdr], SubSeq(mods, 1, k - 1), 1).hdr]_vars

C10_Witness ==
    /\ hpc = "modified"
    /\ Len(mods) = 3
    /\ FirstFailing(mods) = 2
    /\ mods[1] = Mod("ANCount", 7)
    /\ mods[3] = Mod("RCode", 4)
    /\ mret.err # Nil
    /\ heap[hdr].ANCount = 772
    /\ heap[Len(heap)].ANCount = 7

\* the shift of each flag sub-field in the Flags word
FieldShift(field) ==
    CASE field = "QR" -> QRShift [] field = "OpCode" -> OpCodeShift
      [] field = "AA" -> AAShift [] field = "TC" -> TCShift
      [] field = "RD" -> RDShift [] field = "RA" -> RAShift
      [] field = "Z" -> ZShift [] field = "RCode" -> RCodeShift

\* the value of a flag sub-field of the Flags word
SubField(flags, field) == (flags \div 2 ^ FieldShift(field)) % 2 ^ FieldWidth(field)

\* the value the last mutator of kind k in ms sets, old when there is none
LastSet(ms, k, old) ==
    LET S == {i \in 1 .. Len(ms) : ms[i].kind = k}
    IN  IF S = {} THEN old ELSE ms[CHOOSE i \in S : \A j \in S : j <= i].val

\* C11: when every mutator succeeds ModifyDNSHeader returns, without error,
\* a header at another address than the receiver's in which every field and
\* flag sub-field holds what the last mutator of that field set, or the
\* receiver's value when no mutator set it; the receiver's six fields are
\* what they were, and stay so when the caller writes to the returned header.
C11_CopyOnSuccess ==
    [][/\ (hpc = "new" /\ hpc' = "modified" /\ FirstFailing(mods) = 0) =>
            LET old == heap[hdr]
                new == heap'[mret'.ptr]
            IN  /\ mret'.err = Nil
                /\ mret'.ptr # hdr
                /\ heap'[hdr] = old
                /\ new.ID = old.ID
                /\ new.QDCount = LastSet(mods, "QDCount", old.QDCount)
                /\ new.ANCount = LastSet(mods, "ANCount", old.ANCount)
                /\ new.NSCount = LastSet(mods, "NSCount", old.NSCount)
                /\ new.ARCount = LastSet(mods, "ARCount", old.ARCount)
                /\ \A f \in FlagFields :
                       SubField(new.Flags, f) =
                           LastSet(mods, f, SubField(old.Flags, f))
       /\ (hpc = "modified" /\ hpc' = "written") =>
            /\ heap'[mret.ptr] # heap[mret.ptr]
            /\ heap'[hdr] = heap[hdr]]_vars

C11_Witness ==
    /\ hpc = "written"
    /\ mods = <<Mod("RCode", 4), Mod("ANCount", 7), Mod("RCode", 3)>>
    /\ heap[hdr] = DNSHeader(4660, 43605, 258, 772, 0, 65535)
    /\ heap[mret.ptr] = DNSHeader(4661, 43603, 258, 7, 0, 65535)

\* C12: NewDNSHeader returns an error exactly when an option of a flag
\* sub-field is beyond the sub-field's width, and the Flags word of the
\* header it returns holds every option in its own bits.  The code accepts
\* OpCode 16, which it packs into the QR bit.
C12_NewHeaderExact ==
    hopts # [kind |-> "none"] =>
        /\ (mret.err # Nil) <=> (\E f \in FlagFields : hopts[f] >= 2 ^ FieldWidth(f))
        /\ mret.err = Nil =>
               \A f \in FlagFields : SubField(heap[mret.ptr].Flags, f) = hopts[f]

C14_CyclesRejected ==
    cin.kind = "loop" =>
        /\ cpc # "crashed"
        /\ cpc = "decoded" => cerr \in {EOF, UnexpectedEOF}

\* the handler failed: a request was written and an error came back
HandlerFailed == ferr # Nil /\ Len(requests) > 0

C16_SequentialInOrder ==
    /\ [](/\ Len(requests) - Len(replies) \in {0, 1}
          /\ Len(requests) <= Len(requestMessages)
          /\ (fpc = "merge" /\ ferr = Nil) =>
                /\ Len(downstreamResponses) = Len(requestMessages)
                /\ Len(requests) = Len(requestMessages)
                /\ \A i \in 1 .. Len(downstreamResponses) :
                      /\ heap[downstreamResponses[i].Header].ANCount
                            = replies[i].answers
                      /\ downstreamResponses[i].Questions
                            = requestMessages[i].Questions)
    /\ [][Len(requests') > Len(requests) =>
            /\ Len(requests') = Len(requests) + 1
            /\ Len(downstreamResponses) = Len(requests)
            /\ Len(replies) = Len(requests)]_vars

\* two requests were answered, the first with fewer records than the second
C16_Witness ==
    /\ fpc = "merge" /\ ferr = Nil
    /\ Len(downstreamResponses) = 2
    /\ replies[1].answers = 1 /\ replies[2].answers = 2
    /\ requestMessages[1].Questions # requestMessages[2].Questions

\* how many resource records the answers hold
RECURSIVE RecordCount(_)
RecordCount(answers) ==
    IF Len(answers) = 0 THEN 0
    ELSE Len(answers[1].ResourceRecords) + RecordCount(Tail(answers))

\* the datagram b is the encoding of a message m whose counts are right
CountsMatch(b, m) ==
    /\ ReadBE16(b, 4) = Len(m.Questions)
    /\ ReadBE16(b, 6) = RecordCount(m.Answers)

\* C20: every datagram the relay encodes, the requests written to the
\* resolver and the response written to the client, has QDCOUNT equal to the
\* number of questions of its message and ANCOUNT equal to the number of
\* answer records of its message.
C20_CountsMatchLists ==
    /\ \A i \in 1 .. Len(requests) : CountsMatch(requests[i], requestMessages[i])
    /\ response # <<>> => CountsMatch(response, clientMessage)

\* C17: after a Decode that returned no error the message's answer list is
\* empty, whatever records and whatever ANCOUNT the datagram holds.
C17_DecodedAnswersEmpty ==
    (cpc \in {"decoded", "reencoded"} /\ cerr = Nil) => dmsg.Answers = <<>>

\* a datagram with ANCOUNT 1 and one answer record was decoded without error
C17_Witness ==
    /\ cpc = "decoded" /\ cerr = Nil
    /\ cin.kind = "dotted" /\ cin.nrr = 1
    /\ Len(cmsg.Answers) = 1
    /\ Len(wire) > DNSHeaderSize + Len(cin.name) + 6
    /\ heap[dmsg.Header].ANCount = 1

\* C18: IPToBytes(address, dataLength) ends by returning, never by a panic;
\* it returns no error exactly when the address has dataLength parts and
\* every part is an integer in 0..255; then it returns dataLength bytes,
\* byte i being part i.
C18_IPToBytesExact ==
    uin.kind = "ip" /\ upc # "input" =>
        /\ upc = "returned"
        /\ (uout.err = Nil) <=> (/\ Len(uin.parts) = uin.n
                                 /\ \A i \in 1 .. Len(uin.parts) : uin.parts[i].octet)
        /\ uout.err = Nil =>
              /\ Len(uout.data) = uin.n
              /\ \A i \in 1 .. uin.n : uout.data[i] = uin.parts[i].val

\* C19: StringToLabels(name) returns a label-too-long error exactly when a
\* segment of name between dots is longer than 255 bytes; otherwise it
\* returns one label per segment, in order, whose Content is the segment and
\* whose Length is the number of bytes of Content.
C19_LabelTooLongExact ==
    uin.kind = "string" /\ upc = "returned" =>
        /\ (uout.err # Nil) <=> (\E i \in 1 .. Len(uin.segs) : uin.segs[i] > 255)
        /\ uout.err # Nil => uout.err.kind = "LabelTooLong" /\ uout.labels = <<>>
        /\ uout.err = Nil =>
              /\ Len(uout.labels) = Len(uin.segs)
              /\ \A i \in 1 .. Len(uin.segs) :
                    /\ uout.labels[i].Content = Letters(uin.segs[i])
                    /\ uout.labels[i].Length = Len(uout.labels[i].Content)

\* a name whose second segment is 256 bytes long was refused
C19_Witness ==
    /\ uin.kind = "string" /\ upc = "returned"
    /\ Len(uin.segs) = 2 /\ uin.segs[1] = 3 /\ uin.segs[2] = 256
    /\ uout.err # Nil

\* C2: a name of labels of any content, each 1 to 255 bytes long, written to
\* the wire as a question's name and decoded again (ReadQName, then
\* BytesToLabels) is the label sequence it was: as many labels, each of the
\* same Length and Content.  The code does not do this: the input below of
\* the label {1, [0xC0]} is a state where it fails.
C2_NameRoundTrip ==
    (cin.kind = "labels" /\ cpc = "decoded") =>
        /\ cerr = Nil
        /\ Len(dmsg.Questions) = 1
        /\ dmsg.Questions[1].Name = cin.name

\* a name all of whose bytes are copied by the scan of ReadQName: no label
\* of 192 bytes or more, no zero byte and no byte of 192 or more in a label
PlainName(labels) ==
    \A i \in 1 .. Len(labels) :
        /\ labels[i].Length \in 1 .. 191
        /\ \A k \in 1 .. Len(labels[i].Content) :
               labels[i].Content[k] \in 1 .. 191

\* C3: a name made of literal labels and then a pointer to an earlier name
\* of the message decodes to the literal labels followed by the labels that
\* decoding at the pointer's offset gives.  Stated for the second question
\* of a datagram whose first question's name is plain, the literal labels
\* being of any content.
C3_PointerDecodes ==
    (cin.kind = "compressed" /\ cpc = "decoded" /\ PlainName(cin.first)) =>
        /\ cerr = Nil
        /\ Len(dmsg.Questions) = 2
        /\ dmsg.Questions[2].Name =
               cin.literal \o
               BytesToLabels(ReadQName(wire,
                   LabelOffset(cin.first, cin.j, DNSHeaderSize)).data).labels

\* C4: after Decode succeeded the header of the message has RCODE 0 when the
\* OPCODE of the datagram was 0 and RCODE 4 when it was 1..15, whatever the
\* RCODE of the datagram; ID, the four counts and the twelve flag bits above
\* RCODE (QR, OPCODE, AA, TC, RD, RA, Z) are those of the datagram.
C4_DecodeSetsRCode ==
    (cpc = "decoded" /\ cerr = Nil) =>
        LET h == heap[dmsg.Header]
            w(k) == wire[2 * k - 1] * 256 + wire[2 * k]
        IN  /\ h.Flags % 16 = (IF (w(2) \div 2048) % 16 = 0 THEN 0 ELSE 4)
            /\ h.Flags \div 16 = w(2) \div 16
            /\ h.ID = w(1)
            /\ h.QDCount = w(3) /\ h.ANCount = w(4)
            /\ h.NSCount = w(5) /\ h.ARCount = w(6)

C4_Witness ==
    /\ cpc = "decoded"
    /\ cerr = Nil
    /\ cin.hdr.Flags = 5 * 2048 + 34815
    /\ wire[4] % 16 = 15
    /\ heap[dmsg.Header].Flags = 5 * 2048 + 34815 - 15 + 4

\* C8: a message of a header, a question and answers built from dotted names
\* encodes to bytes that decode, and the decoded message encodes to the same
\* bytes.  The code does not do this for "example.com" with one A record.
C8_ReEncodeIdentical ==
    (cin.kind = "dotted" /\ cpc \in {"decoded", "reencoded"}) =>
        /\ cerr = Nil
        /\ cpc = "reencoded" => wire2 = wire

\* C5: every message SplitDNSMessage returns for a message of N >= 1
\* questions has a header whose QDCOUNT is 1, its other fields being those of
\* the original.  Stated where main holds the messages SplitDNSMessage
\* returned and DNSServerHandler has not yet touched them.
C5_SplitQDCountOne ==
    (fpc = "handler" /\ requests = <<>>) =>
        \A i \in 1 .. Len(requestMessages) :
            heap[requestMessages[i].Header] =
                [heap[clientMessage.Header] EXCEPT !.QDCount = 1]

\* the questions of the client's query whose reply carried an answer record
Answered == {i \in 1 .. Len(replies) : replies[i].answers >= 1}

\* main wrote a response to the client and waits for the next query
Responded == fpc = "listen" /\ response # <<>>

\* C6: the ANCOUNT of the response sent to the client is the number of
\* replies of the resolver that carried at least one answer record, and is at
\* most the number of questions.
C6_ANCountCountsAnswers ==
    Responded =>
        /\ ReadBE16(response, 6) = Cardinality(Answered)
        /\ heap[clientMessage.Header].ANCount = Cardinality(Answered)
        /\ ReadBE16(response, 6) <= Len(query.names)

\* the indices of S in increasing order
RECURSIVE Ascending(_)
Ascending(S) ==
    IF S = {} THEN <<>>
    ELSE LET least == CHOOSE i \in S : \A k \in S : i <= k
         IN  <<least>> \o Ascending(S \ {least})

\* C7: the answer list of the response holds, for each question whose
\* reply carried an answer record, the first record of that reply and no
\* other, in the order of the questions.
C7_FirstAnswerForwarded ==
    Responded =>
        LET idx == Ascending(Answered)
        IN  /\ Len(clientMessage.Answers) = Len(idx)
            /\ \A k \in 1 .. Len(idx) :
                   /\ Len(clientMessage.Answers[k].ResourceRecords) = 1
                   /\ clientMessage.Answers[k].ResourceRecords[1].Data =
                          AnswerData(idx[k], 1)

\* main holds what SplitDNSMessage returned, DNSServerHandler is not called yet
SplitReturned == fpc = "handler" /\ requests = <<>>

\* C21: for a message of N questions with QDCOUNT N, SplitDNSMessage returns
\* N messages; message i holds question i alone and a header with the ID,
\* Flags, ANCOUNT, NSCOUNT and ARCOUNT of the original; the original's header
\* and questions are as Decode left them; every returned header is an object
\* of its own, neither the original's nor another message's.
C21_SplitFrame ==
    SplitReturned =>
        LET d == DecodeMessage(<<>>, ZeroMessage, QueryDatagram(query))
            orig == heap[clientMessage.Header]
        IN  /\ clientMessage = d.msg
            /\ orig = d.heap[d.msg.Header]
            /\ orig.QDCount = Len(clientMessage.Questions)
            /\ Len(requestMessages) = orig.QDCount
            /\ \A i \in 1 .. Len(requestMessages) :
                  /\ requestMessages[i].Questions = <<clientMessage.Questions[i]>>
                  /\ \A f \in {"ID", "Flags", "ANCount", "NSCount", "ARCount"} :
                        heap[requestMessages[i].Header][f] = orig[f]
                  /\ requestMessages[i].Header # clientMessage.Header
                  /\ \A j \in 1 .. Len(requestMessages) :
                        j # i => requestMessages[j].Header # requestMessages[i].Header

\* a message of two questions with different names was split
C21_Witness ==
    /\ SplitReturned
    /\ Len(requestMessages) = 2
    /\ clientMessage.Questions[1] # clientMessage.Questions[2]
    /\ heap[clientMessage.Header].QDCount = 2

\* every length byte of the name is a label length: below 0xC0, and zero
\* only for the null label that ends the name
LengthsAreLabels(labels) ==
    \A i \in 1 .. Len(labels) :
        /\ labels[i].Length = Len(labels[i].Content)
        /\ labels[i].Length < 192
        /\ labels[i].Length = 0 <=> i = Len(labels)

\* C22: when every length byte of a name on the wire is below 0xC0, each
\* label decodes to its length and the bytes after it, copied as they are,
\* whatever their value: a zero byte or a byte of 0xC0 and above inside a
\* label is content, and the type and class are read after the name.
C22_ContentVerbatim ==
    (cin.kind = "labels" /\ cpc = "decoded" /\ LengthsAreLabels(cin.name)) =>
        /\ cerr = Nil
        /\ Len(dmsg.Questions) = 1
        /\ Len(dmsg.Questions[1].Name) = Len(cin.name)
        /\ \A i \in 1 .. Len(cin.name) :
              dmsg.Questions[1].Name[i].Content = cin.name[i].Content
        /\ dmsg.Questions[1].Type = cin.type
        /\ dmsg.Questions[1].Class = cin.class

\* a name on the wire as it should be for the segments segs of a dotted
\* string from segment i on: each segment that is not empty as its length and
\* its bytes, then one zero byte
RECURSIVE TerminatedName(_, _)
TerminatedName(segs, i) ==
    IF i > Len(segs) THEN <<0>>
    ELSE IF Len(segs[i]) = 0 THEN TerminatedName(segs, i + 1)
    ELSE <<Len(segs[i])>> \o segs[i] \o TerminatedName(segs, i + 1)

\* C23: Encode writes the name of a question and of a resource record as the
\* labels that are not empty, each as length byte and content, and then
\* exactly one zero byte, before the type and class: for a name built from a
\* dotted string with or without trailing dot, and for a name as Decode
\* stores it.
C23_NameTerminatedOnce ==
    /\ (cin.kind = "dotted" /\ cpc = "encoded") =>
          LET name == TerminatedName(SplitDots(cin.name, 1), 1)
              question == name \o BE16(cin.type) \o BE16(cin.class)
              record == name \o BE16(cin.type) \o BE16(cin.class) \o BE32(cin.ttl)
                            \o BE16(cin.length) \o <<8, 8, 8, 8>>
          IN  wire = EncodeHeader(cin.hdr) \o question
                        \o (IF cin.nrr = 1 THEN record ELSE <<>>)
    /\ (cin.kind = "labels" /\ cpc = "encoded") =>
          wire = EncodeHeader(cin.hdr)
                    \o TerminatedName([i \in 1 .. Len(cin.name) |-> cin.name[i].Content], 1)
                    \o BE16(cin.type) \o BE16(cin.class)

\* C24: a pointer ends the name: ReadQName leaves the reader at the byte
\* after the two pointer bytes, and the type and class of the question are
\* the four bytes there; also when the name pointed to ends in a pointer
\* itself.  The names decoded are the literal labels and then the name
\* pointed to.
C24_PointerEndsName ==
    (cin.kind = "chain" /\ cpc = "decoded") =>
        LET second == ReadQName(wire, ChainSecondAt(cin))
            third == ReadQName(wire, ChainThirdAt(cin))
        IN  /\ cerr = Nil
            /\ second.err = Nil /\ third.err = Nil
            /\ second.pos = ChainSecondAt(cin) + Len(EncodeRecordName(cin.second, 1)) + 2
            /\ third.pos = ChainThirdAt(cin) + Len(EncodeRecordName(cin.third, 1)) + 2
            /\ third.pos + 4 = Len(wire)
            /\ Len(dmsg.Questions) = 3
            /\ dmsg.Questions[2] =
                  DNSQuestion(cin.second \o cin.first \o <<NullLabel>>, 28, 3)
            /\ dmsg.Questions[3] =
                  DNSQuestion(cin.third \o cin.second \o cin.first \o <<NullLabel>>,
                              15, 4)

\* a datagram was decoded whose third name has labels before its pointer to
\* the second name, which has a label before its pointer to the first
C24_Witness ==
    /\ cin.kind = "chain" /\ cpc = "decoded" /\ cerr = Nil
    /\ Len(cin.third) = 2 /\ Len(cin.second) = 1
    /\ Len(dmsg.Questions[3].Name) = 2 + 1 + Len(cin.first) + 1

\* C25: a flag setter with a value within the field's width makes the
\* sub-field read that value and leaves the other flag sub-fields, the ID and
\* the four counts as they were; with a value beyond the width it returns an
\* error and no bit of the header is changed; a count setter sets its count,
\* changes nothing else and returns no error.  The header the setter works on
\* is the copy ModifyDNSHeader made, the last of the heap.
C25_SetterFrame ==
    (hpc = "modified" /\ Len(mods) = 1) =>
        LET m == mods[1]
            old == heap[hdr]
            new == heap[Len(heap)]
        IN  IF m.kind \in CountFields
            THEN mret.err = Nil /\ new = [old EXCEPT ![m.kind] = m.val]
            ELSE IF m.val < 2 ^ FieldWidth(m.kind)
            THEN /\ mret.err = Nil
                 /\ SubField(new.Flags, m.kind) = m.val
                 /\ \A f \in FlagFields \ {m.kind} :
                       SubField(new.Flags, f) = SubField(old.Flags, f)
                 /\ [new EXCEPT !.Flags = 0] = [old EXCEPT !.Flags = 0]
            ELSE mret.err # Nil /\ new = old /\ mret.ptr = hdr

\* the three-bit field Z of a header with every flag bit set was set to 5
C25_Witness ==
    /\ hpc = "modified" /\ Len(mods) = 1
    /\ mods[1] = Mod("Z", 5)
    /\ heap[hdr].Flags = 65535
    /\ heap[Len(heap)].Flags = 65535 - 112 + 80

\* questions i.. of qs are what question.Decode reads from b one after the
\* other, the first at offset pos, each where the one before ended
RECURSIVE InWireOrder(_, _, _, _)
InWireOrder(b, qs, i, pos) ==
    \/ i > Len(qs)
    \/ /\ DecodeQuestion(b, pos).err = Nil
       /\ DecodeQuestion(b, pos).question = qs[i]
       /\ InWireOrder(b, qs, i + 1, DecodeQuestion(b, pos).pos)

\* C26: after a Decode without error the message has as many questions as
\* the QDCOUNT of the datagram's header, question i being the i-th read: the
\* first at offset 12, each next one where the one before ended.  In a
\* datagram of three questions of types 1, 28 and 15 these are the types of
\* questions 1, 2 and 3.
C26_QuestionsInOrder ==
    (cpc = "decoded" /\ cerr = Nil) =>
        /\ Len(dmsg.Questions) = ReadBE16(wire, 4)
        /\ Len(dmsg.Questions) = heap[dmsg.Header].QDCount
        /\ InWireOrder(wire, dmsg.Questions, 1, DNSHeaderSize)
        /\ cin.kind = "chain" =>
              [i \in 1 .. 3 |-> dmsg.Questions[i].Type] = <<1, 28, 15>>

\* a datagram of three questions was decoded
C26_Witness ==
    /\ cpc = "decoded" /\ cerr = Nil
    /\ cin.kind = "chain"
    /\ ReadBE16(wire, 4) = 3
    /\ Len(dmsg.Questions) = 3
    /\ dmsg.Questions[1].Name # dmsg.Questions[2].Name

\* the question section of the response to query q from question i on, as
\* it should be: the names of the query in full, type 1, class 1
RECURSIVE AnsweredQuestions(_, _)
AnsweredQuestions(q, i) ==
    IF i > Len(q.names) THEN <<>>
    ELSE WireName(QuestionName(q, i)) \o BE16(1) \o BE16(1)
             \o AnsweredQuestions(q, i + 1)

\* C27: the response sent to the client has the questions of the query, as
\* many, with the same names in the same order, each with type 1 and class 1
\* whatever the query's type and class; every request written to the
\* resolver has the type and class of the query.
C27_ResponseQuestionsAIN ==
    /\ Responded =>
          /\ ReadBE16(response, 4) = Len(query.names)
          /\ Len(clientMessage.Questions) = Len(query.names)
          /\ \A i \in 1 .. Len(query.names) :
                clientMessage.Questions[i] =
                    DNSQuestion(QuestionName(query, i) \o <<NullLabel>>, 1, 1)
          /\ Len(response) >= DNSHeaderSize + Len(AnsweredQuestions(query, 1))
          /\ SubSeq(response, DNSHeaderSize + 1,
                    DNSHeaderSize + Len(AnsweredQuestions(query, 1)))
                = AnsweredQuestions(query, 1)
    /\ \A i \in 1 .. Len(requests) :
          /\ requestMessages[i].Questions[1].Type = query.type
          /\ requestMessages[i].Questions[1].Class = QueryClass(query)
          /\ SubSeq(requests[i], Len(requests[i]) - 3, Len(requests[i]))
                = BE16(query.type) \o BE16(QueryClass(query))

\* a query of two questions of type AAAA and class CH was answered
C27_Witness ==
    /\ Responded
    /\ query.type = 28 /\ QueryClass(query) = 3
    /\ Len(query.names) = 2 /\ query.names[1] # query.names[2]
    /\ Len(requests) = 2

\* the relay is blocked in resolverConn.Read
Waiting == fpc = "await"

\* C28: while the relay waits for the resolver's reply it does nothing else:
\* the only steps out of the wait are the arrival of a reply and an error of
\* the read, which ends the server; without a reply no response is written
\* to the client, no further request is written and no client datagram is
\* read.  No step is a timeout that lets the relay go on.
C28_BlockedWhileWaiting ==
    /\ [](Waiting => response = <<>> /\ Len(requests) = Len(replies) + 1)
    /\ [][Waiting =>
            \/ /\ Len(replies') = Len(replies) + 1
               /\ SubSeq(replies', 1, Len(replies)) = replies
            \/ /\ fpc' = "stopped"
               /\ ferr' # Nil
               /\ UNCHANGED <<requests, response, query, replies>>]_vars

\* the relay waits for the reply to the first of two requests
C28_Witness ==
    /\ Waiting
    /\ Len(requestMessages) = 2
    /\ Len(requests) = 1 /\ replies = <<>>
    /\ response = <<>>

\* the header of the datagram of the client's query
QueryHeader == DecodeHeader(QueryDatagram(query), 0).hdr

\* C29: the header of the response written to the client has the ID, OPCODE,
\* RD, QDCOUNT, NSCOUNT and ARCOUNT of the query's header, QR 1, AA, TC, RA
\* and Z 0, and RCODE 0 when the query's OPCODE is 0 and 4 otherwise; the ID
\* and RCODE of the resolver's replies are not in it.
C29_ResponseHeaderFromQuery ==
    Responded =>
        /\ ReadBE16(response, 0) = QueryHeader.ID
        /\ ReadBE16(response, 2) =
              32768 + SubField(QueryHeader.Flags, "OpCode") * 2048
                    + SubField(QueryHeader.Flags, "RD") * 256
                    + (IF SubField(QueryHeader.Flags, "OpCode") = 0 THEN 0 ELSE 4)
        /\ ReadBE16(response, 4) = QueryHeader.QDCount
        /\ ReadBE16(response, 8) = QueryHeader.NSCount
        /\ ReadBE16(response, 10) = QueryHeader.ARCount

\* a query with OPCODE 1, RD 0 and the other flag bits set was answered, the
\* resolver's reply having another ID and RCODE 3
C29_Witness ==
    /\ Responded
    /\ query.flags = 36607
    /\ Len(replies) = 1 /\ replies[1].answers = 0
    /\ ReadBE16(response, 2) = 32768 + 2048 + 4
    /\ ReadBE16(response, 10) = 1

====
